---- MODULE Spec2Model ----
(***************************************************************************)
(* WebSocket demo of tfutada/claude-go: the server (src/unnamed/part_000)  *)
(* and the client (src/unnamed/part_001).  Bytes are the integers 0..255, *)
(* byte strings and Go strings are sequences of bytes.                     *)
(***************************************************************************)
EXTENDS Integers, Sequences, FiniteSets, TLC

VARIABLES
    cpc,      \* codec run: "input" -> "encoded" -> "decoded"; call: -> "returned"
    cin,      \* codec run: the input [side, payload, opcode, key]; call: [fn, ...]
    cwire,    \* codec run: the bytes writeFrame handed to conn.Write
    cres,     \* codec run: what readFrame returned for cwire
    role,     \* the program that runs: "server", "client" ("codec": none)
    httpIn,   \* the HTTP message the peer sent, until the program reads it
    inbuf,    \* the bytes the peer sent after it, not yet read
    inEOF,    \* the peer has closed the stream
    wbroken,  \* the peer has reset the connection: conn.Write fails
    nsent,    \* number of chunks the peer has sent
    outw,     \* the conn.Write calls of the program, in order
    spc,      \* server: position of handleWebSocket
    cmain,    \* client: position of main
    crd,      \* client: position of the readMessages goroutine
    hkey,     \* the Sec-WebSocket-Key of the handshake
    hmsg,     \* the HTTP message the program has read
    nin,      \* client: number of input lines main has read
    last,     \* the last step of the program: what it read and wrote
    proc,     \* server process: position of main's accept loop
    conns,    \* server process: its connections, in the order accepted
    nerr,     \* server process: number of Accept calls that failed
    handlers, \* signaling: the handleWS goroutine of each peer [pc, msg]
    clients,  \* signaling: the keys of the clients map
    broadcast,\* signaling: the messages in the broadcast channel
    rly,      \* signaling: the relay goroutine
    wrote,    \* signaling: the WriteMessage calls on each peer's connection
    rread     \* signaling: how many messages ReadMessage returned, per peer

codecVars == <<cpc, cin, cwire, cres>>
connVars == <<role, httpIn, inbuf, inEOF, wbroken, nsent, outw, spc, cmain,
              crd, hkey, hmsg, nin, last>>
procVars == <<proc, conns, nerr>>
relayVars == <<handlers, clients, broadcast, rly, wrote, rread>>
vars == <<codecVars, connVars, procVars, relayVars>>

-----------------------------------------------------------------------------
(* Bounds of the model *)

\* payload lengths are taken up to LenSlack below and above each tier boundary
LenSlack == 1
\* number of payload fill patterns
NPat == 2
\* number of chunks the peer sends on a connection
MaxChunks == 2
\* number of chunks the peer sends before the handshake has been handled
MaxEarly == 1
\* number of input lines the client's main reads
MaxInputs == 1
\* number of connections the server process accepts
MaxConns == 2
\* number of Accept calls that fail
MaxAcceptErrors == 1
\* payload lengths of the masking calls: 0..MaxMaskLen
MaxMaskLen == 9

Byte == 0..255

Zeros(n) == [i \in 1..n |-> 0]

-----------------------------------------------------------------------------
(* Bit operations on bytes *)

RECURSIVE XorN(_, _)
XorN(a, b) ==
    IF a = 0 THEN b
    ELSE IF b = 0 THEN a
    ELSE ((a + b) % 2) + 2 * XorN(a \div 2, b \div 2)

\* a ^ b on bytes, tabulated once
XorTab == [a \in Byte |-> [b \in Byte |-> XorN(a, b)]]

Xor(a, b) == XorTab[a][b]

\* 0x80 | b
Or80(b) == IF b >= 128 THEN b ELSE b + 128

\* byte(x >> (8*i)) of an int 0 <= x < 2^31 (a slice length of the model)
ByteAt(x, i) == IF i >= 4 THEN 0 ELSE (x \div (256 ^ i)) % 256

-----------------------------------------------------------------------------
(* io.ReadFull on a bufio.Reader whose stream delivers the bytes s and then *)
(* ends: read n bytes at offset pos.  The buffer is zero-initialised by     *)
(* make, so the bytes that did not arrive stay 0.                           *)

ReadFull(s, pos, n) ==
    LET avail == Len(s) - pos
    IN  IF avail >= n
        THEN [data |-> SubSeq(s, pos + 1, pos + n), err |-> "nil",
              pos |-> pos + n, short |-> FALSE]
        ELSE [data |-> SubSeq(s, pos + 1, Len(s)) \o Zeros(n - avail),
              err |-> IF avail = 0 THEN "EOF" ELSE "ErrUnexpectedEOF",
              pos |-> Len(s), short |-> TRUE]

\* binary.BigEndian.Uint16
Uint16LittleEndian(b) == b[2] * 256 + b[1]
Uint16(b) == b[1] * 256 + b[2]

\* A uint64 is <<q3, q2, q1, q0>>, its four 16-bit quarters, the most
\* significant first.

\* binary.BigEndian.Uint64
Uint64(b) ==
    <<b[1] * 256 + b[2], b[3] * 256 + b[4], b[5] * 256 + b[6],
      b[7] * 256 + b[8]>>

\* uint64(x) of a value 0 <= x < 2^31
ToUint64(x) == <<0, 0, x \div 65536, x % 65536>>

\* the largest size the allocator accepts: maxAlloc of the runtime, 2^48 on
\* the 64-bit builds (amd64, arm64).  A build with 32-bit int refuses
\* every length from 2^31 on; the model is the 64-bit build.
MaxAlloc == <<1, 0, 0, 0>>

\* n > m on uint64
Gt64(n, m) ==
    \E i \in 1..4 : n[i] > m[i] /\ \A j \in 1..(i - 1) : n[j] = m[j]

\* make([]byte, length) panics for the length in the 8 bytes b: it is above
\* maxAlloc (which covers the lengths that do not fit int)
TooLong(b) == Gt64(Uint64(b), MaxAlloc)

\* the user address space of linux/amd64, 2^47 bytes: no heap holds an
\* object of that size, whatever the machine
HeapLimit == <<0, 32768, 0, 0>>

\* make([]byte, length) ends the process with "fatal error: runtime: out of
\* memory": always for a length of HeapLimit or more, and for a length from
\* 2^31 on when the machine cannot give the memory (mem is whether it can).
\* The lengths below 2^31 are those of the frames of the model, which are
\* allocated.
OutOfMemory(n, mem) ==
    /\ ~(n[1] = 0 /\ n[2] = 0 /\ n[3] < 32768)
    /\ ~Gt64(HeapLimit, n) \/ ~mem

\* the uint64 n is below 2^31, and its value then
FitsInt31(n) == n[1] = 0 /\ n[2] = 0 /\ n[3] < 32768
IntOf(n) == n[3] * 65536 + n[4]

\* io.ReadFull into a buffer of 2^31 bytes or more, which no stream of the
\* model fills: it takes what the stream has and returns the error of its
\* end
ReadFullBeyond(s, pos) ==
    [data |-> <<>>,
     err |-> IF Len(s) - pos = 0 THEN "EOF" ELSE "ErrUnexpectedEOF",
     pos |-> Len(s), short |-> TRUE]

\* Unmask with the key one byte out of step
UnmaskMisaligned(payload, maskKey) ==
    [i \in 1..Len(payload) |-> Xor(payload[i], maskKey[(i % 4) + 1])]

\* payload[i] ^= maskKey[i%4]
Unmask(payload, maskKey) ==
    [i \in 1..Len(payload) |-> Xor(payload[i], maskKey[((i - 1) % 4) + 1])]

FrameErrSwallowed(e, pos) ==
    [payload |-> <<>>, opcode |-> 0, err |-> "nil", masked |-> FALSE,
     length |-> ToUint64(0), used |-> pos, short |-> TRUE]
FrameErr(e, pos) ==
    [payload |-> <<>>, opcode |-> 0, err |-> e, masked |-> FALSE,
     length |-> ToUint64(0), used |-> pos, short |-> TRUE]

-----------------------------------------------------------------------------
(* The server's frame codec (part_000).  readFrame is given the bytes s    *)
(* its reader delivers before the stream ends.  Besides the three values   *)
(* the Go function returns (payload, opcode, err) the result records its   *)
(* locals masked and length, the offset reached (used) and whether some    *)
(* ReadFull ran into the end of the stream (short).  err "panic" is the    *)
(* run-time panic of make([]byte, length) for a length out of range, err   *)
(* "fatal" the fatal error of the runtime when it cannot get the memory;   *)
(* both end the process.  mem is whether the machine can give the memory   *)
(* for a length of 2^31 or more; the payload is then read into it.         *)

readFrame(s, mem) ==
    LET h == ReadFull(s, 0, 2)
    IN  IF h.err # "nil" THEN FrameErr(h.err, h.pos)
        ELSE
        LET opcode == h.data[1] % 16
            masked == h.data[2] >= 128
            base   == h.data[2] % 128
            e == ReadFull(s, h.pos, IF base = 126 THEN 2
                                    ELSE IF base = 127 THEN 8 ELSE 0)
            huge == base = 127 /\ TooLong(e.data)
            length == IF base = 126 THEN ToUint64(Uint16(e.data))
                      ELSE IF base = 127 THEN Uint64(e.data)
                      ELSE ToUint64(base)
            m == ReadFull(s, e.pos, IF masked THEN 4 ELSE 0)
        IN  IF huge
            THEN [FrameErr("panic", m.pos) EXCEPT !.masked = masked,
                                                  !.length = length,
                                                  !.short = e.short \/ m.short]
            ELSE IF OutOfMemory(length, mem)
            THEN [FrameErr("fatal", m.pos) EXCEPT !.masked = masked,
                                                  !.length = length,
                                                  !.short = e.short \/ m.short]
            ELSE
            LET p == IF FitsInt31(length)
                     THEN ReadFull(s, m.pos, IntOf(length))
                     ELSE ReadFullBeyond(s, m.pos)
            IN  IF p.err # "nil"
                THEN [FrameErr(p.err, p.pos) EXCEPT !.masked = masked,
                                                    !.length = length]
                ELSE [payload |-> IF masked THEN Unmask(p.data, m.data)
                                  ELSE p.data,
                      opcode |-> opcode, err |-> "nil", masked |-> masked,
                      length |-> length, used |-> p.pos,
                      short |-> e.short \/ m.short]

\* writeFrame with the first tier boundary off by one (length <= 126)
writeFrameTierOff(payload, opcode) ==
    LET length == Len(payload)
        lenBytes ==
            IF length <= 126 THEN <<ByteAt(length, 0)>>
            ELSE IF length < 65536
            THEN <<126, ByteAt(length, 1), ByteAt(length, 0)>>
            ELSE <<127>> \o [i \in 1..8 |-> ByteAt(length, 8 - i)]
    IN  <<Or80(opcode)>> \o lenBytes \o payload

\* the frame the server's writeFrame hands to conn.Write, in one call
writeFrame(payload, opcode) ==
    LET length == Len(payload)
        lenBytes ==
            IF length < 126 THEN <<ByteAt(length, 0)>>
            ELSE IF length < 65536
            THEN <<126, ByteAt(length, 1), ByteAt(length, 0)>>
            ELSE <<127>> \o [i \in 1..8 |-> ByteAt(length, 8 - i)]
    IN  <<Or80(opcode)>> \o lenBytes \o payload

-----------------------------------------------------------------------------
(* The client's frame codec (part_001) *)

clientReadFrameChecksFin(s, mem) ==
    IF s # <<>> /\ s[1] < 128 THEN FrameErr("ErrFragment", 0)
    ELSE readFrame(s, mem)
clientReadFrame(s, mem) ==
    LET h == ReadFull(s, 0, 2)
    IN  IF h.err # "nil" THEN FrameErr(h.err, h.pos)
        ELSE
        LET opcode == h.data[1] % 16
            masked == h.data[2] >= 128
            base   == h.data[2] % 128
            e == ReadFull(s, h.pos, IF base = 126 THEN 2
                                    ELSE IF base = 127 THEN 8 ELSE 0)
            huge == base = 127 /\ TooLong(e.data)
            length == IF base = 126 THEN ToUint64(Uint16(e.data))
                      ELSE IF base = 127 THEN Uint64(e.data)
                      ELSE ToUint64(base)
            m == ReadFull(s, e.pos, IF masked THEN 4 ELSE 0)
        IN  IF huge
            THEN [FrameErr("panic", m.pos) EXCEPT !.masked = masked,
                                                  !.length = length,
                                                  !.short = e.short \/ m.short]
            ELSE IF OutOfMemory(length, mem)
            THEN [FrameErr("fatal", m.pos) EXCEPT !.masked = masked,
                                                  !.length = length,
                                                  !.short = e.short \/ m.short]
            ELSE
            LET p == IF FitsInt31(length)
                     THEN ReadFull(s, m.pos, IntOf(length))
                     ELSE ReadFullBeyond(s, m.pos)
            IN  IF p.err # "nil"
                THEN [FrameErr(p.err, p.pos) EXCEPT !.masked = masked,
                                                    !.length = length]
                ELSE [payload |-> IF masked THEN Unmask(p.data, m.data)
                                  ELSE p.data,
                      opcode |-> opcode, err |-> "nil", masked |-> masked,
                      length |-> length, used |-> p.pos,
                      short |-> e.short \/ m.short]

\* maskedPayload[i] = payload[i] ^ maskKey[i%4]
MaskPayloadFirstKeyByte(payload, maskKey) ==
    [i \in 1..Len(payload) |-> Xor(payload[i], maskKey[1])]
MaskPayload(payload, maskKey) ==
    [i \in 1..Len(payload) |-> Xor(payload[i], maskKey[((i - 1) % 4) + 1])]

clientWriteFrameUnmasked(payload, opcode, maskKey) == writeFrame(payload, opcode)
\* the frame the client's writeFrame hands to conn.Write, in one call;
\* maskKey is the 4 bytes rand.Read drew
clientWriteFrame(payload, opcode, maskKey) ==
    LET length == Len(payload)
        lenBytes ==
            IF length < 126 THEN <<Or80(ByteAt(length, 0))>>
            ELSE IF length < 65536
            THEN <<Or80(126), ByteAt(length, 1), ByteAt(length, 0)>>
            ELSE <<Or80(127)>> \o [i \in 1..8 |-> ByteAt(length, 8 - i)]
    IN  <<Or80(opcode)>> \o lenBytes \o maskKey
            \o MaskPayload(payload, maskKey)


-----------------------------------------------------------------------------
(* crypto/sha1 and encoding/base64, as computeAcceptKey uses them.  A      *)
(* 32-bit word is a pair <<hi, lo>> of 16-bit halves.                      *)

RECURSIVE AndN(_, _)
AndN(a, b) ==
    IF a = 0 \/ b = 0 THEN 0
    ELSE ((a % 2) * (b % 2)) + 2 * AndN(a \div 2, b \div 2)

AndTab == [a \in Byte |-> [b \in Byte |-> AndN(a, b)]]

And16(a, b) ==
    AndTab[a \div 256][b \div 256] * 256 + AndTab[a % 256][b % 256]
Xor16(a, b) ==
    XorTab[a \div 256][b \div 256] * 256 + XorTab[a % 256][b % 256]

And32(x, y) == <<And16(x[1], y[1]), And16(x[2], y[2])>>
Xor32(x, y) == <<Xor16(x[1], y[1]), Xor16(x[2], y[2])>>
Or32(x, y) ==
    <<x[1] + y[1] - And16(x[1], y[1]), x[2] + y[2] - And16(x[2], y[2])>>
Not32(x) == <<65535 - x[1], 65535 - x[2]>>

Add32(x, y) ==
    LET lo == x[2] + y[2]
        hi == x[1] + y[1] + (lo \div 65536)
    IN  <<hi % 65536, lo % 65536>>

\* bits.RotateLeft32(x, n), 0 < n < 32
RotL32(x, n) ==
    LET y == IF n >= 16 THEN <<x[2], x[1]>> ELSE x
        k == n % 16
    IN  IF k = 0 THEN y
        ELSE <<((y[1] * (2 ^ k)) % 65536) + (y[2] \div (2 ^ (16 - k))),
               ((y[2] * (2 ^ k)) % 65536) + (y[1] \div (2 ^ (16 - k)))>>

\* message padding: 0x80, zeros up to 56 mod 64, the bit length in 8 bytes
Sha1Pad(msg) ==
    LET n == Len(msg)
        z == (119 - (n % 64)) % 64
        bits == n * 8
    IN  msg \o <<128>> \o Zeros(z)
            \o <<0, 0, 0, 0, ByteAt(bits, 3), ByteAt(bits, 2),
                 ByteAt(bits, 1), ByteAt(bits, 0)>>

\* the 16 big-endian words of block b (0-based) of the padded message
Sha1Block(m, b) ==
    [i \in 1..16 |->
        LET o == 64 * b + 4 * (i - 1)
        IN  <<m[o + 1] * 256 + m[o + 2], m[o + 3] * 256 + m[o + 4]>>]

RECURSIVE Sha1Schedule(_)
Sha1Schedule(w) ==
    LET n == Len(w)
    IN  IF n = 80 THEN w
        ELSE Sha1Schedule(Append(w,
                 RotL32(Xor32(Xor32(w[n - 2], w[n - 7]),
                              Xor32(w[n - 13], w[n - 15])), 1)))

Sha1F(i, b, c, d) ==
    IF i < 20 THEN Or32(And32(b, c), And32(Not32(b), d))
    ELSE IF i < 40 THEN Xor32(Xor32(b, c), d)
    ELSE IF i < 60 THEN Or32(Or32(And32(b, c), And32(b, d)), And32(c, d))
    ELSE Xor32(Xor32(b, c), d)

Sha1K(i) ==
    IF i < 20 THEN <<23170, 31129>>
    ELSE IF i < 40 THEN <<28377, 60321>>
    ELSE IF i < 60 THEN <<36635, 48348>>
    ELSE <<51810, 49622>>

RECURSIVE Sha1Rounds(_, _, _)
Sha1Rounds(s, w, i) ==
    \* (the test on s has each round evaluated before the next begins)
    IF i = 80 \/ Len(s) # 5 THEN s
    ELSE LET t == Add32(Add32(Add32(Add32(RotL32(s[1], 5),
                        Sha1F(i, s[2], s[3], s[4])), s[5]), Sha1K(i)),
                        w[i + 1])
         IN  Sha1Rounds(<<t, s[1], RotL32(s[2], 30), s[3], s[4]>>, w, i + 1)

Sha1Init ==
    << <<26437, 8961>>, <<61389, 43913>>, <<39098, 56574>>,
       <<4146, 21622>>, <<50130, 57840>> >>

RECURSIVE Sha1Blocks(_, _, _)
Sha1Blocks(h, m, b) ==
    IF 64 * b >= Len(m) THEN h
    ELSE LET r == Sha1Rounds(h, Sha1Schedule(Sha1Block(m, b)), 0)
         IN  Sha1Blocks([j \in 1..5 |-> Add32(h[j], r[j])], m, b + 1)

\* sha1.Sum: the 20 bytes of the digest
Sha1(msg) ==
    LET h == Sha1Blocks(Sha1Init, Sha1Pad(msg), 0)
    IN  [i \in 1..20 |->
            LET half == h[((i - 1) \div 4) + 1][(((i - 1) % 4) \div 2) + 1]
            IN  IF i % 2 = 1 THEN half \div 256 ELSE half % 256]

\* the base64 standard alphabet
B64Char(v) ==
    IF v < 26 THEN 65 + v
    ELSE IF v < 52 THEN 97 + (v - 26)
    ELSE IF v < 62 THEN 48 + (v - 52)
    ELSE IF v = 62 THEN 43 ELSE 47

\* base64.StdEncoding.EncodeToString
RECURSIVE Base64(_)
Base64(b) ==
    IF Len(b) = 0 THEN <<>>
    ELSE IF Len(b) = 1
    THEN <<B64Char(b[1] \div 4), B64Char((b[1] % 4) * 16), 61, 61>>
    ELSE IF Len(b) = 2
    THEN <<B64Char(b[1] \div 4),
           B64Char((b[1] % 4) * 16 + b[2] \div 16),
           B64Char((b[2] % 16) * 4), 61>>
    ELSE <<B64Char(b[1] \div 4),
           B64Char((b[1] % 4) * 16 + b[2] \div 16),
           B64Char((b[2] % 16) * 4 + b[3] \div 64),
           B64Char(b[3] % 64)>> \o Base64(SubSeq(b, 4, Len(b)))

\* "258EAFA5-E914-47DA-95CA-C5AB0DC85B11"
websocketGUID ==
    <<50, 53, 56, 69, 65, 70, 65, 53, 45, 69, 57, 49, 52, 45,
       52, 55, 68, 65, 45, 57, 53, 67, 65, 45, 67, 53, 65, 66, 48, 68, 67, 56, 53, 66, 49, 49>>

\* the Sec-WebSocket-Key values of the model:
\* "dGhlIHNhbXBsZSBub25jZQ==" and "AQIDBAUGBwgJCgsMDQ4PEA=="
Key1 ==
    <<100, 71, 104, 108, 73, 72, 78, 104, 98, 88, 66, 115,
       90, 83, 66, 117, 98, 50, 53, 106, 90, 81, 61, 61>>
Key2 ==
    <<65, 81, 73, 68, 66, 65, 85, 71, 66, 119, 103,
       74, 67, 103, 115, 77, 68, 81, 52, 80, 69, 65, 61, 61>>
HandshakeKeys == {Key1, Key2}
\* the key the client's rand.Read and base64 draw, a sample
ClientKeys == {Key1}

StrAbc == <<97, 98, 99>>

\* the digests of the model's keys, computed once
DigestTab ==
    [m \in { k \o websocketGUID : k \in HandshakeKeys \cup {StrAbc} } |->
        Sha1(m)]

\* h := sha1.New(); h.Write(msg); h.Sum(nil)
Sha1Sum(msg) == IF msg \in DOMAIN DigestTab THEN DigestTab[msg] ELSE Sha1(msg)

computeAcceptKeyNoGUID(key) == Base64(Sha1Sum(key))
\* the server's computeAcceptKey
computeAcceptKey(key) == Base64(Sha1Sum(key \o websocketGUID))

clientComputeAcceptKeyOfAbc(key) == Base64(Sha1Sum(StrAbc \o websocketGUID))
\* the client's computeAcceptKey
clientComputeAcceptKey(key) == Base64(Sha1Sum(key \o websocketGUID))

-----------------------------------------------------------------------------
(* Strings and HTTP headers *)

\* a continuation byte of UTF-8
IsCont(str, i) == i <= Len(str) /\ str[i] >= 128 /\ str[i] <= 191

\* utf8.DecodeRuneInString at offset i of str: the rune and its width; a
\* byte that starts no valid encoding is RuneError (U+FFFD), width 1
DecodeRune(str, i) ==
    LET b == str[i]
        c(k) == str[i + k] - 128
    IN  IF b < 128 THEN [r |-> b, w |-> 1]
        ELSE IF b >= 194 /\ b <= 223 /\ IsCont(str, i + 1)
        THEN [r |-> (b - 192) * 64 + c(1), w |-> 2]
        ELSE IF /\ b >= 224 /\ b <= 239
                /\ IsCont(str, i + 1) /\ IsCont(str, i + 2)
                /\ (b = 224 => str[i + 1] >= 160)
                /\ (b = 237 => str[i + 1] <= 159)
        THEN [r |-> ((b - 224) * 64 + c(1)) * 64 + c(2), w |-> 3]
        ELSE IF /\ b >= 240 /\ b <= 244
                /\ IsCont(str, i + 1) /\ IsCont(str, i + 2)
                /\ IsCont(str, i + 3)
                /\ (b = 240 => str[i + 1] >= 144)
                /\ (b = 244 => str[i + 1] <= 143)
        THEN [r |-> (((b - 240) * 64 + c(1)) * 64 + c(2)) * 64 + c(3),
              w |-> 4]
        ELSE [r |-> 65533, w |-> 1]

\* utf8.AppendRune: the encoding of the rune r
EncodeRune(r) ==
    IF r < 128 THEN <<r>>
    ELSE IF r < 2048 THEN <<192 + (r \div 64), 128 + (r % 64)>>
    ELSE IF r < 65536
    THEN <<224 + (r \div 4096), 128 + ((r \div 64) % 64), 128 + (r % 64)>>
    ELSE <<240 + (r \div 262144), 128 + ((r \div 4096) % 64),
           128 + ((r \div 64) % 64), 128 + (r % 64)>>

\* The lower-case mappings of unicode.CaseRanges (Unicode 15.0, the table
\* of the Go releases that have sync.WaitGroup.Go and range over an
\* integer, which the repository uses; 1433 code points):
\* <<lo, hi, stride, delta>> maps every stride-th rune from lo to hi to
\* itself plus delta.
CaseRanges ==
    <<
    <<65, 90, 1, 32>>, <<192, 214, 1, 32>>, <<216, 222, 1, 32>>,
    <<256, 302, 2, 1>>, <<304, 304, 1, -199>>, <<306, 310, 2, 1>>,
    <<313, 327, 2, 1>>, <<330, 374, 2, 1>>, <<376, 376, 1, -121>>,
    <<377, 381, 2, 1>>, <<385, 385, 1, 210>>, <<386, 388, 2, 1>>,
    <<390, 390, 1, 206>>, <<391, 391, 1, 1>>, <<393, 394, 1, 205>>,
    <<395, 395, 1, 1>>, <<398, 398, 1, 79>>, <<399, 399, 1, 202>>,
    <<400, 400, 1, 203>>, <<401, 401, 1, 1>>, <<403, 403, 1, 205>>,
    <<404, 404, 1, 207>>, <<406, 406, 1, 211>>, <<407, 407, 1, 209>>,
    <<408, 408, 1, 1>>, <<412, 412, 1, 211>>, <<413, 413, 1, 213>>,
    <<415, 415, 1, 214>>, <<416, 420, 2, 1>>, <<422, 422, 1, 218>>,
    <<423, 423, 1, 1>>, <<425, 425, 1, 218>>, <<428, 428, 1, 1>>,
    <<430, 430, 1, 218>>, <<431, 431, 1, 1>>, <<433, 434, 1, 217>>,
    <<435, 437, 2, 1>>, <<439, 439, 1, 219>>, <<440, 440, 1, 1>>,
    <<444, 444, 1, 1>>, <<452, 452, 1, 2>>, <<453, 453, 1, 1>>,
    <<455, 455, 1, 2>>, <<456, 456, 1, 1>>, <<458, 458, 1, 2>>,
    <<459, 475, 2, 1>>, <<478, 494, 2, 1>>, <<497, 497, 1, 2>>,
    <<498, 500, 2, 1>>, <<502, 502, 1, -97>>, <<503, 503, 1, -56>>,
    <<504, 542, 2, 1>>, <<544, 544, 1, -130>>, <<546, 562, 2, 1>>,
    <<570, 570, 1, 10795>>, <<571, 571, 1, 1>>, <<573, 573, 1, -163>>,
    <<574, 574, 1, 10792>>, <<577, 577, 1, 1>>, <<579, 579, 1, -195>>,
    <<580, 580, 1, 69>>, <<581, 581, 1, 71>>, <<582, 590, 2, 1>>,
    <<880, 882, 2, 1>>, <<886, 886, 1, 1>>, <<895, 895, 1, 116>>,
    <<902, 902, 1, 38>>, <<904, 906, 1, 37>>, <<908, 908, 1, 64>>,
    <<910, 911, 1, 63>>, <<913, 929, 1, 32>>, <<931, 939, 1, 32>>,
    <<975, 975, 1, 8>>, <<984, 1006, 2, 1>>, <<1012, 1012, 1, -60>>,
    <<1015, 1015, 1, 1>>, <<1017, 1017, 1, -7>>, <<1018, 1018, 1, 1>>,
    <<1021, 1023, 1, -130>>, <<1024, 1039, 1, 80>>, <<1040, 1071, 1, 32>>,
    <<1120, 1152, 2, 1>>, <<1162, 1214, 2, 1>>, <<1216, 1216, 1, 15>>,
    <<1217, 1229, 2, 1>>, <<1232, 1326, 2, 1>>, <<1329, 1366, 1, 48>>,
    <<4256, 4293, 1, 7264>>, <<4295, 4295, 1, 7264>>,
    <<4301, 4301, 1, 7264>>, <<5024, 5103, 1, 38864>>,
    <<5104, 5109, 1, 8>>, <<7312, 7354, 1, -3008>>,
    <<7357, 7359, 1, -3008>>, <<7680, 7828, 2, 1>>,
    <<7838, 7838, 1, -7615>>, <<7840, 7934, 2, 1>>, <<7944, 7951, 1, -8>>,
    <<7960, 7965, 1, -8>>, <<7976, 7983, 1, -8>>, <<7992, 7999, 1, -8>>,
    <<8008, 8013, 1, -8>>, <<8025, 8031, 2, -8>>, <<8040, 8047, 1, -8>>,
    <<8072, 8079, 1, -8>>, <<8088, 8095, 1, -8>>, <<8104, 8111, 1, -8>>,
    <<8120, 8121, 1, -8>>, <<8122, 8123, 1, -74>>, <<8124, 8124, 1, -9>>,
    <<8136, 8139, 1, -86>>, <<8140, 8140, 1, -9>>, <<8152, 8153, 1, -8>>,
    <<8154, 8155, 1, -100>>, <<8168, 8169, 1, -8>>,
    <<8170, 8171, 1, -112>>, <<8172, 8172, 1, -7>>,
    <<8184, 8185, 1, -128>>, <<8186, 8187, 1, -126>>,
    <<8188, 8188, 1, -9>>, <<8486, 8486, 1, -7517>>,
    <<8490, 8490, 1, -8383>>, <<8491, 8491, 1, -8262>>,
    <<8498, 8498, 1, 28>>, <<8544, 8559, 1, 16>>, <<8579, 8579, 1, 1>>,
    <<9398, 9423, 1, 26>>, <<11264, 11311, 1, 48>>, <<11360, 11360, 1, 1>>,
    <<11362, 11362, 1, -10743>>, <<11363, 11363, 1, -3814>>,
    <<11364, 11364, 1, -10727>>, <<11367, 11371, 2, 1>>,
    <<11373, 11373, 1, -10780>>, <<11374, 11374, 1, -10749>>,
    <<11375, 11375, 1, -10783>>, <<11376, 11376, 1, -10782>>,
    <<11378, 11378, 1, 1>>, <<11381, 11381, 1, 1>>,
    <<11390, 11391, 1, -10815>>, <<11392, 11490, 2, 1>>,
    <<11499, 11501, 2, 1>>, <<11506, 11506, 1, 1>>, <<42560, 42604, 2, 1>>,
    <<42624, 42650, 2, 1>>, <<42786, 42798, 2, 1>>, <<42802, 42862, 2, 1>>,
    <<42873, 42875, 2, 1>>, <<42877, 42877, 1, -35332>>,
    <<42878, 42886, 2, 1>>, <<42891, 42891, 1, 1>>,
    <<42893, 42893, 1, -42280>>, <<42896, 42898, 2, 1>>,
    <<42902, 42920, 2, 1>>, <<42922, 42922, 1, -42308>>,
    <<42923, 42923, 1, -42319>>, <<42924, 42924, 1, -42315>>,
    <<42925, 42925, 1, -42305>>, <<42926, 42926, 1, -42308>>,
    <<42928, 42928, 1, -42258>>, <<42929, 42929, 1, -42282>>,
    <<42930, 42930, 1, -42261>>, <<42931, 42931, 1, 928>>,
    <<42932, 42946, 2, 1>>, <<42948, 42948, 1, -48>>,
    <<42949, 42949, 1, -42307>>, <<42950, 42950, 1, -35384>>,
    <<42951, 42953, 2, 1>>, <<42960, 42960, 1, 1>>, <<42966, 42968, 2, 1>>,
    <<42997, 42997, 1, 1>>, <<65313, 65338, 1, 32>>,
    <<66560, 66599, 1, 40>>, <<66736, 66771, 1, 40>>,
    <<66928, 66938, 1, 39>>, <<66940, 66954, 1, 39>>,
    <<66956, 66962, 1, 39>>, <<66964, 66965, 1, 39>>,
    <<68736, 68786, 1, 64>>, <<71840, 71871, 1, 32>>,
    <<93760, 93791, 1, 32>>, <<125184, 125217, 1, 34>>
    >>

\* unicode.ToLower: the rune's lower case by the table, else the rune
UnicodeToLower(r) ==
    IF \E k \in DOMAIN CaseRanges :
           /\ CaseRanges[k][1] <= r /\ r <= CaseRanges[k][2]
           /\ (r - CaseRanges[k][1]) % CaseRanges[k][3] = 0
    THEN LET k == CHOOSE k \in DOMAIN CaseRanges :
                      /\ CaseRanges[k][1] <= r /\ r <= CaseRanges[k][2]
                      /\ (r - CaseRanges[k][1]) % CaseRanges[k][3] = 0
         IN  r + CaseRanges[k][4]
    ELSE r

\* strings.Map(unicode.ToLower, str) from offset i on
RECURSIVE MapToLower(_, _)
MapToLower(str, i) ==
    IF i > Len(str) THEN <<>>
    ELSE LET d == DecodeRune(str, i)
         IN  EncodeRune(UnicodeToLower(d.r)) \o MapToLower(str, i + d.w)

\* strings.ToLower: byte by byte when str is ASCII, else rune by rune
ToLower(str) ==
    IF \A i \in 1..Len(str) : str[i] < 128
    THEN [i \in 1..Len(str) |->
             IF str[i] >= 65 /\ str[i] <= 90 THEN str[i] + 32 ELSE str[i]]
    ELSE MapToLower(str, 1)

\* strings.Contains
Contains(str, sub) ==
    \E i \in 0..(Len(str) - Len(sub)) : SubSeq(str, i + 1, i + Len(sub)) = sub

\* http.Header.Get: the first value of the header, "" when there is none;
\* a header is a sequence of <<canonical name, value>>
HeaderGet(header, name) ==
    LET idx == { i \in 1..Len(header) : header[i][1] = name }
    IN  IF idx = {} THEN <<>>
        ELSE header[CHOOSE i \in idx : \A j \in idx : i <= j][2]

StrWebsocket == <<119, 101, 98, 115, 111, 99, 107, 101, 116>>
StrUpgrade == <<117, 112, 103, 114, 97, 100, 101>>
Str101 == <<49, 48, 49>>
\* "Server received: "
StrServerReceived ==
    <<83, 101, 114, 118, 101, 114, 32,
       114, 101, 99, 101, 105, 118, 101, 100, 58, 32>>

isWebSocketUpgrade(r) ==
    /\ ToLower(HeaderGet(r.header, "Upgrade")) = StrWebsocket
    /\ Contains(ToLower(HeaderGet(r.header, "Connection")), StrUpgrade)

-----------------------------------------------------------------------------
(* conn.Write calls *)

HttpWrite(status, accept) ==
    [kind |-> "http", status |-> status, accept |-> accept, data |-> <<>>,
     ok |-> TRUE]
FrameWriteHeaderFirst(bytes) ==
    [kind |-> "frame", status |-> 0, accept |-> <<>>,
     data |-> SubSeq(bytes, 1, 2), ok |-> TRUE]
FrameWrite(bytes) ==
    [kind |-> "frame", status |-> 0, accept |-> <<>>, data |-> bytes,
     ok |-> TRUE]
\* the client's upgrade request, with its Sec-WebSocket-Key
RequestWrite(key) ==
    [kind |-> "request", status |-> 0, accept |-> key, data |-> <<>>,
     ok |-> TRUE]

WrittenFirst(log, w) == <<[w EXCEPT !.ok = ~wbroken]>> \o log
\* conn.Write(w): fails once the peer has reset the connection
Written(log, w) == Append(log, [w EXCEPT !.ok = ~wbroken])

NoHttp == [ok |-> FALSE, line |-> <<>>, header |-> <<>>, none |-> TRUE]

Step(name, f, n) == [step |-> name, f |-> f, writes |-> n]

-----------------------------------------------------------------------------
(* Codec runs: one frame written by one side's writeFrame and read by the  *)
(* other side's readFrame.                                                 *)

\* tier boundaries of the length encoding
Tier16 == 126
Tier64 == 65536

Opcodes == 0..15

\* the mask keys rand.Read may draw, a sample
MaskKeys == { <<0, 0, 0, 0>>, <<55, 250, 33, 61>> }

\* payload of n bytes, fill pattern p
Payload(n, p) == [i \in 1..n |-> (i * (6 * p + 7) + 3 * p) % 256]

SmallLens == (0..(LenSlack - 1))
                \cup ((Tier16 - LenSlack)..(Tier16 + LenSlack - 1))
LargeLens == (Tier64 - LenSlack)..(Tier64 + LenSlack - 1)

SmallPayloads == { Payload(n, p) : n \in SmallLens, p \in 0..(NPat - 1) }
LargePayloads == { Payload(n, 0) : n \in LargeLens }

\* the opcodes of data frames (Text, Binary)
DataOpcodes == {1, 2}

\* every opcode with the payloads of the first two tiers, the data opcodes
\* with the payloads of the 8-byte tier
CodecInputs ==
    [side : {"client"}, payload : SmallPayloads, opcode : Opcodes,
     key : MaskKeys, cut : {-1}]
        \cup [side : {"server"}, payload : SmallPayloads, opcode : Opcodes,
              key : {<<>>}, cut : {-1}]
        \cup [side : {"client"}, payload : LargePayloads,
              opcode : DataOpcodes, key : MaskKeys, cut : {-1}]
        \cup [side : {"server"}, payload : LargePayloads,
              opcode : DataOpcodes, key : {<<>>}, cut : {-1}]

NoFrame == FrameErr("none", 0)

\* no server process runs
ProcIdle == proc = "off" /\ conns = <<>> /\ nerr = 0

\* no signaling server runs
RelayIdle ==
    /\ handlers = <<>> /\ clients = {} /\ broadcast = <<>>
    /\ rly = [pc |-> "off"] /\ wrote = <<>> /\ rread = <<>>

\* no connection: the state of the connection variables in a codec run
ConnIdle ==
    /\ role = "codec"
    /\ httpIn = NoHttp /\ inbuf = <<>> /\ inEOF = FALSE /\ wbroken = FALSE
    /\ nsent = 0 /\ outw = <<>>
    /\ spc = "off" /\ cmain = "off" /\ crd = "off"
    /\ hkey = <<>> /\ hmsg = NoHttp /\ nin = 0
    /\ last = Step("none", NoFrame, 0)

CodecInit ==
    /\ cpc = "input"
    /\ cin \in CodecInputs
    /\ cwire = <<>>
    /\ cres = NoFrame
    /\ ConnIdle
    /\ ProcIdle
    /\ RelayIdle

\* the client calls writeFrame(conn, payload, opcode); rand.Read draws key
ClientEncode ==
    /\ cpc = "input" /\ cin.side = "client"
    /\ cwire' = clientWriteFrame(cin.payload, cin.opcode, cin.key)
    /\ cpc' = "encoded"
    /\ UNCHANGED <<cin, cres, connVars, procVars, relayVars>>

\* the server calls writeFrame(conn, payload, opcode)
ServerEncode ==
    /\ cpc = "input" /\ cin.side = "server"
    /\ cwire' = writeFrame(cin.payload, cin.opcode)
    /\ cpc' = "encoded"
    /\ UNCHANGED <<cin, cres, connVars, procVars, relayVars>>

\* number of bytes before the mask key and the payload
HeaderLen(w) ==
    2 + (IF w[2] % 128 = 126 THEN 2 ELSE IF w[2] % 128 = 127 THEN 8 ELSE 0)

\* the stream ends after the 2 header bytes and before the last of the
\* extended-length bytes
CutStream ==
    /\ cpc = "encoded" /\ cin.cut = -1
    /\ \E k \in 2..(HeaderLen(cwire) - 1) :
          /\ cwire' = SubSeq(cwire, 1, k)
          /\ cin' = [cin EXCEPT !.cut = k]
    /\ UNCHANGED <<cpc, cres, connVars, procVars, relayVars>>

\* the server's readFrame reads what the client wrote
ServerDecode ==
    /\ cpc = "encoded" /\ cin.side = "client"
    /\ \E mem \in BOOLEAN : cres' = readFrame(cwire, mem)
    /\ cpc' = "decoded"
    /\ UNCHANGED <<cin, cwire, connVars, procVars, relayVars>>

\* the client's readFrame reads what the server wrote
ClientDecode ==
    /\ cpc = "encoded" /\ cin.side = "server"
    /\ \E mem \in BOOLEAN : cres' = clientReadFrame(cwire, mem)
    /\ cpc' = "decoded"
    /\ UNCHANGED <<cin, cwire, connVars, procVars, relayVars>>

CodecNext ==
    \/ ClientEncode
    \/ ServerEncode
    \/ CutStream
    \/ ServerDecode
    \/ ClientDecode

SpecCodec == CodecInit /\ [][CodecNext]_vars


-----------------------------------------------------------------------------
(* The peer of the program: what arrives on the connection *)

StrHi == <<104, 105>>
PeerKey == <<55, 250, 33, 61>>

\* a masked frame with first byte b0 and a payload below 126 bytes
MaskedFrame(b0, key, payload) ==
    <<b0, 128 + Len(payload)>> \o key \o MaskPayload(payload, key)
\* the same frame unmasked
PlainFrame(b0, payload) == <<b0, Len(payload)>> \o payload

Request(header) ==
    [ok |-> TRUE, line |-> <<>>, header |-> header, none |-> FALSE]
BadRequest ==
    [ok |-> FALSE, line |-> <<>>, header |-> <<>>, none |-> FALSE]

\* "WebSocket", "Upgrade", "keep-alive, Upgrade", "keep-alive"
StrWebSocketMixed == <<87, 101, 98, 83, 111, 99, 107, 101, 116>>
StrUpgradeCap == <<85, 112, 103, 114, 97, 100, 101>>
StrKeepAliveUpgrade ==
    <<107, 101, 101, 112, 45, 97, 108, 105, 118,
       101, 44, 32, 85, 112, 103, 114, 97, 100, 101>>
StrKeepAlive == <<107, 101, 101, 112, 45, 97, 108, 105, 118, 101>>

\* the requests a peer may send to the server
PeerRequests ==
    { Request(<< <<"Upgrade", StrWebsocket>>, <<"Connection", StrUpgradeCap>>,
                 <<"Sec-WebSocket-Key", Key1>> >>),
      Request(<< <<"Connection", StrKeepAliveUpgrade>>,
                 <<"Upgrade", StrWebSocketMixed>>,
                 <<"Sec-WebSocket-Key", Key2>> >>),
      Request(<< <<"Connection", StrUpgradeCap>>,
                 <<"Sec-WebSocket-Key", Key1>> >>),
      Request(<< <<"Upgrade", StrWebsocket>>, <<"Connection", StrKeepAlive>>,
                 <<"Sec-WebSocket-Key", Key1>> >>),
      Request(<< <<"Upgrade", StrWebsocket>>,
                 <<"Connection", StrUpgradeCap>> >>),
      Request(<< <<"Upgrade", StrWebsocket>>, <<"Connection", StrUpgradeCap>>,
                 <<"Sec-WebSocket-Key", <<>> >> >>),
      BadRequest }

\* the byte chunks a peer may send to the server after its request
ToServerChunks ==
    { MaskedFrame(129, PeerKey, StrHi),       \* Text
      PlainFrame(129, StrHi),                 \* Text, unmasked
      MaskedFrame(1, PeerKey, StrHi),         \* Text, FIN = 0
      MaskedFrame(130, PeerKey, <<0, 255>>),  \* Binary
      MaskedFrame(136, PeerKey, <<>>),        \* Close
      MaskedFrame(136, PeerKey, <<3, 232>>),  \* Close, status 1000
      MaskedFrame(137, PeerKey, StrAbc),      \* Ping
      PlainFrame(137, StrAbc),                \* Ping, unmasked
      MaskedFrame(138, PeerKey, StrAbc),      \* Pong
      MaskedFrame(128, PeerKey, StrHi),       \* Continuation
      MaskedFrame(131, PeerKey, <<>>),        \* reserved opcode 0x3
      MaskedFrame(139, PeerKey, <<>>),        \* reserved opcode 0xB
      <<129>>,                                \* half a header
      <<129, 254>>,                           \* marker 126, no length bytes
      <<129, 254, 0>>,                        \* marker 126, 1 length byte
      <<130, 255, 0, 0, 0>>,                  \* marker 127, 3 length bytes
      \* 2^31 bytes announced, the key and 3 bytes sent
      <<130, 255, 0, 0, 0, 0, 128, 0, 0, 0>> \o PeerKey \o <<1, 2, 3>>,
      <<130, 255, 255, 255, 255, 255, 255, 255, 255, 255>> }  \* 2^64 - 1

\* the byte chunks a peer may send to the client after its response
ToClientChunks ==
    { PlainFrame(129, StrHi),                 \* Text
      PlainFrame(130, <<0, 255>>),            \* Binary
      PlainFrame(136, <<>>),                  \* Close
      PlainFrame(137, StrAbc),                \* Ping
      PlainFrame(138, StrAbc),                \* Pong
      PlainFrame(128, StrHi),                 \* Continuation
      <<129, 126>>,
      <<130, 127, 0, 0, 0, 0, 128, 0, 0, 0>>,  \* 2^31 bytes announced
      <<130, 127, 255, 255, 255, 255, 255, 255, 255, 255>> }

Running ==
    \/ role = "server" /\ spc \in {"readRequest", "frameLoop"}
    \/ role = "client" /\ cmain \in {"start", "awaitResponse", "input",
                                     "closing"}

\* the peer sends its upgrade request to the server
PeerSendRequest ==
    /\ role = "server" /\ Running
    /\ httpIn.none /\ nsent = 0 /\ ~inEOF
    /\ spc = "readRequest"
    /\ httpIn' \in PeerRequests
    /\ UNCHANGED <<relayVars, procVars, codecVars, role, inbuf, inEOF, wbroken, nsent, outw, spc,
                   cmain, crd, hkey, hmsg, nin, last>>

\* the peer sends bytes after its HTTP message
PeerSendBytes ==
    /\ Running /\ ~inEOF /\ nsent < MaxChunks
    /\ \/ role = "server" /\ spc = "frameLoop"
       \/ role = "client" /\ cmain \in {"input", "closing"}
       \/ ~httpIn.none /\ nsent < MaxEarly
    /\ \E c \in (IF role = "server" THEN ToServerChunks ELSE ToClientChunks) :
          inbuf' = inbuf \o c
    /\ nsent' = nsent + 1
    /\ UNCHANGED <<relayVars, procVars, codecVars, role, httpIn, inEOF, wbroken, outw, spc, cmain,
                   crd, hkey, hmsg, nin, last>>

\* the peer closes the connection, in order (FIN) or not (RST)
PeerClose ==
    /\ Running /\ ~inEOF
    /\ inEOF' = TRUE
    /\ wbroken' \in BOOLEAN
    /\ UNCHANGED <<relayVars, procVars, codecVars, role, httpIn, inbuf, nsent, outw, spc, cmain,
                   crd, hkey, hmsg, nin, last>>

-----------------------------------------------------------------------------
(* The server: handleWebSocket (part_000) *)

\* lines 66 and 72: "HTTP/1.1 400 Bad Request\r\n\r\n"
BadRequestResponseSwitching == HttpWrite(101, <<>>)
BadRequestResponse == HttpWrite(400, <<>>)

\* lines 50-91: ReadRequest, the checks, the 400 or the 101 response
ServerHandshake ==
    /\ role = "server" /\ spc = "readRequest"
    /\ ~httpIn.none \/ inEOF
    /\ httpIn' = NoHttp
    /\ hmsg' = httpIn
    /\ IF httpIn.none \/ ~httpIn.ok
       THEN \* http.ReadRequest returns an error
            /\ spc' = "closed"
            /\ UNCHANGED <<outw, hkey>>
            /\ last' = Step("badRequest", NoFrame, 0)
       ELSE IF ~isWebSocketUpgrade(httpIn)
       THEN /\ outw' = Written(outw, BadRequestResponse)
            /\ spc' = "closed"
            /\ UNCHANGED hkey
            /\ last' = Step("notUpgrade", NoFrame, 1)
       ELSE LET key == HeaderGet(httpIn.header, "Sec-WebSocket-Key")
            IN  IF key = <<>>
                THEN /\ outw' = Written(outw, BadRequestResponse)
                     /\ spc' = "closed"
                     /\ UNCHANGED hkey
                     /\ last' = Step("noKey", NoFrame, 1)
                ELSE /\ outw' = Written(outw,
                                    HttpWrite(101, computeAcceptKey(key)))
                     /\ spc' = "frameLoop"
                     /\ hkey' = key
                     /\ last' = Step("upgraded", NoFrame, 1)
    /\ UNCHANGED <<relayVars, procVars, codecVars, role, inbuf, inEOF, wbroken, nsent, cmain, crd,
                   nin>>

\* readFrame returns once the frame is complete or the stream has ended
ReadReturns(f) == ~f.short \/ inEOF

Rest(buf, f) == SubSeq(buf, f.used + 1, Len(buf))

\* lines 107-108: the echo of a Text frame
TextReply(message) == writeFrame(StrServerReceived \o message, 1)
\* line 117: the Close frame sent back
CloseReplyAsPong == writeFrame(<<>>, 10)
CloseReply == writeFrame(<<>>, 8)
\* line 123: the Pong that answers a Ping
PongReplyEmpty(message) == writeFrame(<<>>, 10)
PongReply(message) == writeFrame(message, 10)

\* a loop that answers whatever it reads with a Pong
ServerFrameAnswersAll ==
    /\ role = "server" /\ spc = "frameLoop"
    /\ \E mem \in BOOLEAN :
       LET f == readFrame(inbuf, mem)
       IN  /\ ReadReturns(f)
           /\ inbuf' = Rest(inbuf, f)
           /\ outw' = Written(outw, FrameWrite(PongReply(f.payload)))
           /\ last' = Step("frame", f, 1)
    /\ UNCHANGED <<relayVars, procVars, codecVars, role, httpIn, inEOF, wbroken, nsent,
                   spc, cmain, crd, hkey, hmsg, nin>>
\* lines 94-128: one turn of the frame loop
ServerFrame ==
    /\ role = "server" /\ spc = "frameLoop"
    /\ \E mem \in BOOLEAN :
       LET f == readFrame(inbuf, mem)
       IN  /\ ReadReturns(f)
           /\ inbuf' = Rest(inbuf, f)
           /\ IF f.err \in {"panic", "fatal"}
              THEN /\ spc' = "crashed"
                   /\ UNCHANGED outw
                   /\ last' = Step("frame", f, 0)
              ELSE IF f.err # "nil"
              THEN /\ spc' = "closed"
                   /\ UNCHANGED outw
                   /\ last' = Step("frame", f, 0)
              ELSE IF f.opcode = 1
              THEN /\ outw' = Written(outw, FrameWrite(TextReply(f.payload)))
                   /\ spc' = IF wbroken THEN "closed" ELSE "frameLoop"
                   /\ last' = Step("frame", f, 1)
              ELSE IF f.opcode = 8
              THEN /\ outw' = Written(outw, FrameWrite(CloseReply))
                   /\ spc' = "closed"
                   /\ last' = Step("frame", f, 1)
              ELSE IF f.opcode = 9
              THEN /\ outw' = Written(outw, FrameWrite(PongReply(f.payload)))
                   /\ spc' = "frameLoop"
                   /\ last' = Step("frame", f, 1)
              ELSE /\ UNCHANGED <<outw, spc>>
                   /\ last' = Step("frame", f, 0)
    /\ UNCHANGED <<relayVars, procVars, codecVars, role, httpIn, inEOF, wbroken, nsent, cmain, crd,
                   hkey, hmsg, nin>>


-----------------------------------------------------------------------------
(* The client: main, performHandshake, readMessages (part_001) *)

\* "HTTP/1.1 101 Switching Protocols", "HTTP/1.1 400 Bad Request"
Status101 ==
    <<72, 84, 84, 80, 47, 49, 46, 49, 32,
       49, 48, 49, 32, 83, 119, 105, 116, 99, 104, 105, 110, 103, 32,
       80, 114, 111, 116, 111, 99, 111, 108, 115>>
Status400 ==
    <<72, 84, 84, 80, 47, 49, 46, 49, 32,
       52, 48, 48, 32, 66, 97, 100, 32, 82, 101, 113, 117, 101, 115, 116>>

Response(line, header) ==
    [ok |-> TRUE, line |-> line, header |-> header, none |-> FALSE]
\* a response that ends before its blank line
CutResponse ==
    [ok |-> FALSE, line |-> Status101, header |-> <<>>, none |-> FALSE]
\* a 400 response that ends before its blank line
CutResponse400 ==
    [ok |-> FALSE, line |-> Status400, header |-> <<>>, none |-> FALSE]

\* the responses a peer may send to a client whose key is k
PeerResponses(k) ==
    { Response(Status101, << <<"Upgrade", StrWebsocket>>,
                             <<"Connection", StrUpgradeCap>>,
                             <<"Sec-WebSocket-Accept", computeAcceptKey(k)>> >>),
      Response(Status101, << <<"Sec-WebSocket-Accept",
                               computeAcceptKey(StrAbc)>> >>),
      Response(Status101, << <<"Upgrade", StrWebsocket>> >>),
      Response(Status400, <<>>),
      CutResponse,
      CutResponse400 }

\* the peer answers the client's request
PeerSendResponse ==
    /\ role = "client" /\ cmain = "awaitResponse"
    /\ httpIn.none /\ nsent = 0 /\ ~inEOF
    /\ httpIn' \in PeerResponses(hkey)
    /\ UNCHANGED <<relayVars, procVars, codecVars, role, inbuf, inEOF, wbroken, nsent, outw, spc,
                   cmain, crd, hkey, hmsg, nin, last>>

\* the value of the last "sec-websocket-accept:" line, "" when there is none
AcceptOf(header) ==
    LET idx == { i \in 1..Len(header) : header[i][1] = "Sec-WebSocket-Accept" }
    IN  IF idx = {} THEN <<>>
        ELSE header[CHOOSE i \in idx : \A j \in idx : i >= j][2]

\* main lines 22-29 and performHandshake lines 74-94: dial, draw the key,
\* send the upgrade request
ClientSendRequest ==
    /\ role = "client" /\ cmain = "start"
    /\ \/ \* net.DialTimeout returns an error: main prints it and returns
          /\ nsent = 0 /\ ~inEOF
          /\ cmain' = "done"
          /\ last' = Step("dialFailed", NoFrame, 0)
          /\ UNCHANGED <<hkey, outw>>
       \/ /\ \E k \in ClientKeys :
                /\ hkey' = k
                /\ outw' = Written(outw, RequestWrite(k))
          /\ cmain' = IF wbroken THEN "done" ELSE "awaitResponse"
          /\ last' = Step("request", NoFrame, 1)
    /\ UNCHANGED <<relayVars, procVars, codecVars, hmsg, role, httpIn, inbuf, inEOF, wbroken, nsent, spc,
                   crd, nin>>

\* performHandshake lines 96-130 and main lines 32-41: read and check the
\* response, start readMessages.  The bufio.Reader of performHandshake took
\* from the connection the bytes that had arrived when it last read from it
\* (the first k bytes of inbuf, k depending on the timing), and is dropped
\* with them: readMessages makes a new reader.
ClientReadResponse ==
    /\ role = "client" /\ cmain = "awaitResponse"
    /\ ~httpIn.none \/ inEOF
    /\ httpIn' = NoHttp
    /\ hmsg' = httpIn
    /\ IF httpIn.none
       THEN \* the stream ends before the status line
            /\ cmain' = "done"
            /\ last' = Step("responseCut", NoFrame, 0)
            /\ UNCHANGED <<crd, inbuf>>
       ELSE IF ~Contains(httpIn.line, Str101)
       THEN /\ cmain' = "done"
            /\ last' = Step("not101", NoFrame, 0)
            /\ UNCHANGED <<crd, inbuf>>
       ELSE IF ~httpIn.ok
       THEN \* the stream ends before the blank line
            /\ cmain' = "done"
            /\ last' = Step("responseCut", NoFrame, 0)
            /\ UNCHANGED <<crd, inbuf>>
       ELSE IF AcceptOf(httpIn.header) # clientComputeAcceptKey(hkey)
       THEN /\ cmain' = "done"
            /\ last' = Step("badAccept", NoFrame, 0)
            /\ UNCHANGED <<crd, inbuf>>
       ELSE /\ cmain' = "input"
            /\ crd' = "reading"
            /\ last' = Step("upgraded", NoFrame, 0)
            /\ \E k \in 0..Len(inbuf) :
                  inbuf' = SubSeq(inbuf, k + 1, Len(inbuf))
    /\ UNCHANGED <<relayVars, procVars, codecVars, role, inEOF, wbroken, nsent, outw, spc, hkey,
                   nin>>

\* main lines 45-71: one input line
ClientInput ==
    /\ role = "client" /\ cmain = "input" /\ nin < MaxInputs
    /\ nin' = nin + 1
    /\ \/ \* stdin ends
          /\ cmain' = "done"
          /\ last' = Step("stdinEnd", NoFrame, 0)
          /\ UNCHANGED outw
       \/ \* an empty line
          /\ last' = Step("emptyLine", NoFrame, 0)
          /\ UNCHANGED <<cmain, outw>>
       \/ \* "quit"
          /\ \E k \in MaskKeys :
                outw' = Written(outw, FrameWrite(clientWriteFrame(<<>>, 8, k)))
          /\ cmain' = "closing"
          /\ last' = Step("quit", NoFrame, 1)
       \/ \* a line of text
          /\ \E k \in MaskKeys :
                outw' = Written(outw, FrameWrite(clientWriteFrame(StrHi, 1, k)))
          /\ cmain' = IF wbroken THEN "done" ELSE "input"
          /\ last' = Step("text", NoFrame, 1)
    /\ UNCHANGED <<relayVars, procVars, codecVars, role, httpIn, inbuf, inEOF, wbroken, nsent, spc,
                   crd, hkey, hmsg>>

\* main lines 61-62: the sleep ends, main returns and the process exits
ClientExit ==
    /\ role = "client" /\ cmain = "closing"
    /\ cmain' = "done"
    /\ last' = Step("exit", NoFrame, 0)
    /\ UNCHANGED <<relayVars, procVars, codecVars, role, httpIn, inbuf, inEOF, wbroken, nsent, outw,
                   spc, crd, hkey, hmsg, nin>>

\* line 153: the Pong that answers a Ping; key is the mask key drawn
ClientPongReply(message, key) == clientWriteFrame(message, 10, key)

\* a reader that answers what it reads with a Close frame and stops
ClientReadAnswersClose ==
    /\ role = "client" /\ crd = "reading" /\ cmain \in {"input", "closing"}
    /\ \E mem \in BOOLEAN :
       LET f == clientReadFrame(inbuf, mem)
       IN  /\ ReadReturns(f)
           /\ inbuf' = Rest(inbuf, f)
           /\ \E k \in MaskKeys :
                 outw' = Written(outw, FrameWrite(clientWriteFrame(<<>>, 8, k)))
           /\ crd' = "done"
           /\ last' = Step("cframe", f, 1)
    /\ UNCHANGED <<relayVars, procVars, codecVars, role, httpIn, inEOF, wbroken, nsent,
                   spc, cmain, hkey, hmsg, nin>>
\* readMessages lines 138-156: one turn of the loop
ClientRead ==
    /\ role = "client" /\ crd = "reading" /\ cmain \in {"input", "closing"}
    /\ \E mem \in BOOLEAN :
       LET f == clientReadFrame(inbuf, mem)
       IN  /\ ReadReturns(f)
           /\ inbuf' = Rest(inbuf, f)
           /\ IF f.err \in {"panic", "fatal"}
              THEN /\ crd' = "crashed" /\ cmain' = "crashed"
                   /\ UNCHANGED outw
                   /\ last' = Step("cframe", f, 0)
              ELSE IF f.err # "nil" \/ f.opcode = 8
              THEN /\ crd' = "done"
                   /\ UNCHANGED <<outw, cmain>>
                   /\ last' = Step("cframe", f, 0)
              ELSE IF f.opcode = 9
              THEN /\ \E k \in MaskKeys :
                         outw' = Written(outw,
                                     FrameWrite(ClientPongReply(f.payload, k)))
                   /\ UNCHANGED <<crd, cmain>>
                   /\ last' = Step("cframe", f, 1)
              ELSE /\ UNCHANGED <<outw, crd, cmain>>
                   /\ last' = Step("cframe", f, 0)
    /\ UNCHANGED <<relayVars, procVars, codecVars, role, httpIn, inEOF, wbroken, nsent, spc, hkey, hmsg,
                   nin>>

-----------------------------------------------------------------------------
(* One connection of the server, or one run of the client *)

CodecIdle ==
    /\ cpc = "off"
    /\ cin = [side |-> "none", payload |-> <<>>, opcode |-> 0, key |-> <<>>,
              cut |-> -1]
    /\ cwire = <<>>
    /\ cres = NoFrame

Init ==
    /\ CodecIdle
    /\ ProcIdle
    /\ RelayIdle
    /\ role \in {"server", "client"}
    /\ httpIn = NoHttp /\ inbuf = <<>> /\ inEOF = FALSE /\ wbroken = FALSE
    /\ nsent = 0 /\ outw = <<>>
    /\ spc = IF role = "server" THEN "readRequest" ELSE "off"
    /\ cmain = IF role = "client" THEN "start" ELSE "off"
    /\ crd = "off"
    /\ hkey = <<>> /\ hmsg = NoHttp /\ nin = 0
    /\ last = Step("none", NoFrame, 0)

Next ==
    \/ PeerSendRequest
    \/ PeerSendResponse
    \/ PeerSendBytes
    \/ PeerClose
    \/ ServerHandshake
    \/ ServerFrame
    \/ ClientSendRequest
    \/ ClientReadResponse
    \/ ClientInput
    \/ ClientExit
    \/ ClientRead

Spec == Init /\ [][Next]_vars


\* a codec run, or one connection of the server, or one run of the client
SpecAll == (Init \/ CodecInit) /\ [][Next \/ CodecNext]_vars


-----------------------------------------------------------------------------
(* Properties of the codec, under SpecCodec *)

\* a frame written whole and read by the other side
WholeRun(side) == cpc = "decoded" /\ cin.side = side /\ cin.cut = -1

\* C1: round trip.  The server's readFrame, given the bytes the client's
\* masking writeFrame emitted for payload p and opcode o, returns p and o
\* and no error, whatever the mask key.
C1_MaskedRoundTrip ==
    WholeRun("client") =>
        /\ cres.err = "nil"
        /\ cres.payload = cin.payload
        /\ cres.opcode = cin.opcode

\* a payload of the 8-byte tier went round under a key that changes it
C1_Witness ==
    /\ WholeRun("client")
    /\ Len(cin.payload) >= Tier64
    /\ cin.key # <<0, 0, 0, 0>>
    /\ SubSeq(cwire, 15, 18) # SubSeq(cin.payload, 1, 4)
    /\ cres.payload = cin.payload /\ cres.opcode = cin.opcode

\* C2: length tiers.  writeFrame (server and client) emits the inline
\* length iff L < 126, the marker 126 and 2 big-endian bytes iff
\* 126 <= L < 65536, the marker 127 and 8 big-endian bytes iff L >= 65536;
\* readFrame recovers exactly L payload bytes from each.
C2_LengthTiers ==
    (cpc \in {"encoded", "decoded"} /\ cin.cut = -1) =>
        LET L == Len(cin.payload)
            k == IF cin.side = "client" THEN 4 ELSE 0
            marker == cwire[2] % 128
        IN  /\ L < Tier16 =>
                /\ marker = L
                /\ Len(cwire) = 2 + k + L
            /\ (L >= Tier16 /\ L < Tier64) =>
                /\ marker = 126
                /\ Len(cwire) = 4 + k + L
                /\ cwire[3] * 256 + cwire[4] = L
            /\ L >= Tier64 =>
                /\ marker = 127
                /\ Len(cwire) = 10 + k + L
                /\ SubSeq(cwire, 3, 6) = <<0, 0, 0, 0>>
                /\ ((cwire[7] * 256 + cwire[8]) * 256 + cwire[9]) * 256
                       + cwire[10] = L
            /\ cpc = "decoded" =>
                /\ cres.err = "nil"
                /\ cres.length = ToUint64(L)
                /\ Len(cres.payload) = L

\* the first length of the 8-byte tier, written by the server and read back
C2_Witness ==
    /\ WholeRun("server")
    /\ Len(cin.payload) = Tier64
    /\ SubSeq(cwire, 2, 10) = <<127, 0, 0, 0, 0, 0, 1, 0, 0>>
    /\ cres.length = ToUint64(Tier64)

\* C3: when the stream ends after the 2 header bytes and before the last of
\* the extended-length bytes, readFrame returns an error, not a frame.
C3_TruncatedLengthIsError ==
    (cpc = "decoded" /\ cin.cut # -1) => cres.err # "nil"

-----------------------------------------------------------------------------
(* Properties of one connection, under Spec *)

\* a step of the server's frame loop: it is the one step that takes bytes
\* from a server connection in frame mode
ServerFrameStep ==
    role = "server" /\ spc = "frameLoop" /\ Len(inbuf') < Len(inbuf)

\* a step of the client's readMessages loop
ClientReadStep ==
    role = "client" /\ crd = "reading" /\ Len(inbuf') < Len(inbuf)

\* the step wrote exactly one frame, d, and nothing else
WroteOneFrame(d) ==
    /\ Len(outw') = Len(outw) + 1
    /\ SubSeq(outw', 1, Len(outw)) = outw
    /\ outw'[Len(outw')].kind = "frame"
    /\ outw'[Len(outw')].data = d

\* a server connection that is closed stays as it is: nothing is read from
\* it and nothing is written to it
ClosedIsFinal ==
    (role = "server" /\ spc = "closed") =>
        /\ spc' = "closed"
        /\ outw' = outw
        /\ inbuf' = inbuf
        /\ last' = last

\* C4: a Close frame received by the server's frame loop is answered by
\* exactly one Close frame (0x88 0x00), the connection becomes closed, and
\* on a closed connection no frame is read or written any more.
C4_CloseAnsweredOnceThenClosed ==
    [][ /\ ServerFrameStep =>
            LET f == readFrame(inbuf, TRUE)
            IN  (f.err = "nil" /\ f.opcode = 8) =>
                    /\ WroteOneFrame(<<136, 0>>)
                    /\ spc' = "closed"
        /\ ClosedIsFinal ]_vars

\* the server has read a Close frame with a status code, after the 101 it
\* wrote the Close frame and nothing more, and is closed
C4_Witness ==
    /\ role = "server" /\ spc = "closed"
    /\ last.step = "frame" /\ last.f.err = "nil" /\ last.f.opcode = 8
    /\ last.f.payload = <<3, 232>>
    /\ Len(outw) = 2
    /\ outw[2].kind = "frame" /\ outw[2].data = <<136, 0>>

\* C5: a Ping frame received by the server's frame loop or by the client's
\* readMessages loop is answered by exactly one Pong frame whose payload is
\* the Ping's payload, byte for byte, and the loop goes on reading.
C5_PingAnsweredByOnePong ==
    [][ /\ ServerFrameStep =>
            LET f == readFrame(inbuf, TRUE)
            IN  (f.err = "nil" /\ f.opcode = 9) =>
                    /\ WroteOneFrame(<<138, Len(f.payload)>> \o f.payload)
                    /\ spc' = "frameLoop"
        /\ ClientReadStep =>
            LET f == clientReadFrame(inbuf, TRUE)
                n == Len(f.payload)
            IN  (f.err = "nil" /\ f.opcode = 9) =>
                    /\ Len(outw') = Len(outw) + 1
                    /\ SubSeq(outw', 1, Len(outw)) = outw
                    /\ LET w == outw'[Len(outw')]
                           d == w.data
                       IN  /\ w.kind = "frame"
                           /\ Len(d) = 6 + n
                           /\ d[1] = 138 /\ d[2] = 128 + n
                           /\ \A i \in 1..n :
                                 Xor(d[6 + i], d[3 + ((i - 1) % 4)])
                                     = f.payload[i]
                    /\ crd' = "reading"
                    /\ cmain' = cmain ]_vars

\* the server has read a Ping "abc", written the Pong "abc" and reads on
C5_Witness ==
    /\ role = "server" /\ spc = "frameLoop"
    /\ last.step = "frame" /\ last.f.err = "nil" /\ last.f.opcode = 9
    /\ last.f.payload = StrAbc
    /\ outw[Len(outw)].kind = "frame"
    /\ outw[Len(outw)].data = <<138, 3>> \o StrAbc

\* C6: the server's frame loop never takes a frame whose MASK bit is 0 as
\* a valid frame: readFrame returns an error for it.
C6_ServerRejectsUnmasked ==
    (role = "server" /\ last.step = "frame" /\ ~last.f.masked) =>
        last.f.err # "nil"

\* what a frame header says of the frame: the bytes before the mask key,
\* and the payload length
HeaderSize(d) ==
    LET m == d[2] % 128
    IN  IF m < 126 THEN 2 ELSE IF m = 126 THEN 4 ELSE 10
DeclaredLen(d) ==
    LET m == d[2] % 128
    IN  IF m < 126 THEN m
        ELSE IF m = 126 THEN d[3] * 256 + d[4]
        ELSE ((d[7] * 256 + d[8]) * 256 + d[9]) * 256 + d[10]
\* MASK = 0 and the payload right after the header: no room for a key
IsUnmaskedFrame(d) ==
    /\ Len(d) >= 2 /\ Len(d) >= HeaderSize(d)
    /\ d[2] < 128
    /\ Len(d) = HeaderSize(d) + DeclaredLen(d)
\* MASK = 1 and 4 bytes between the header and the payload
IsMaskedFrame(d) ==
    /\ Len(d) >= 2 /\ Len(d) >= HeaderSize(d)
    /\ d[2] >= 128
    /\ Len(d) = HeaderSize(d) + 4 + DeclaredLen(d)

\* C7: every frame the server writes has MASK = 0 and no mask key, every
\* frame the client writes has MASK = 1 and its 4-byte mask key after the
\* length, in each of the three length tiers.
C7_MaskingDirectionOnWrites ==
    /\ (cpc \in {"encoded", "decoded"} /\ cin.cut = -1) =>
          LET h == HeaderSize(cwire)
          IN  /\ DeclaredLen(cwire) = Len(cin.payload)
              /\ cin.side = "server" =>
                    /\ IsUnmaskedFrame(cwire)
                    /\ SubSeq(cwire, h + 1, Len(cwire)) = cin.payload
              /\ cin.side = "client" =>
                    /\ IsMaskedFrame(cwire)
                    /\ SubSeq(cwire, h + 1, h + 4) = cin.key
    /\ \A i \in 1..Len(outw) :
          outw[i].kind = "frame" =>
              /\ role = "server" => IsUnmaskedFrame(outw[i].data)
              /\ role = "client" =>
                    /\ IsMaskedFrame(outw[i].data)
                    /\ SubSeq(outw[i].data, 3, 6) \in MaskKeys

\* the client wrote a frame of the 8-byte tier: MASK = 1, the marker 127,
\* and the key between the length and the payload
C7_Witness ==
    /\ cpc = "encoded" /\ cin.side = "client"
    /\ Len(cin.payload) >= Tier64
    /\ cwire[2] = 255
    /\ cin.key # <<0, 0, 0, 0>>
    /\ SubSeq(cwire, 11, 14) = cin.key
    /\ Len(cwire) = 14 + Len(cin.payload)

\* the opcodes the loops have no case for
UnsupportedOpcodes == {0} \cup (3..7) \cup (11..15)

\* C8: a Continuation frame or a frame with a reserved opcode ends the
\* loop that read it: the server's connection is closed, the client's
\* readMessages is done.
C8_UnsupportedOpcodeIsFatal ==
    (last.step \in {"frame", "cframe"} /\ last.f.err = "nil"
         /\ last.f.opcode \in UnsupportedOpcodes) =>
        /\ role = "server" => spc = "closed"
        /\ role = "client" => crd = "done"

\* the request the server read is well formed and is to be rejected
Rejected ==
    /\ role = "server" /\ ~hmsg.none /\ hmsg.ok
    /\ \/ ~isWebSocketUpgrade(hmsg)
       \/ HeaderGet(hmsg.header, "Sec-WebSocket-Key") = <<>>

\* C9: after a request that is not an upgrade request, or has no or an
\* empty Sec-WebSocket-Key, the server has written the 400 response and
\* nothing else (no 101, no frame), has read no frame, and the connection
\* is closed.
C9_RejectionWrites400Only ==
    Rejected =>
        /\ Len(outw) = 1
        /\ outw[1].kind = "http" /\ outw[1].status = 400
        /\ spc = "closed"
        /\ last.step \in {"notUpgrade", "noKey"}

\* an upgrade request with an empty key was answered by 400
C9_Witness ==
    /\ Rejected
    /\ isWebSocketUpgrade(hmsg)
    /\ \E i \in 1..Len(hmsg.header) : hmsg.header[i][1] = "Sec-WebSocket-Key"
    /\ Len(outw) = 1 /\ outw[1].status = 400
    /\ spc = "closed"

\* the accept tokens of Key1 and Key2 (RFC 6455, section 1.3):
\* "s3pPLMBiTxaQ9kYGzzhZRbK+xOo=" and "C/0nmHhBztSRGR1CwL6Tf4ZjwpY="
AcceptOfKey1 ==
    <<115, 51, 112, 80, 76, 77, 66, 105, 84, 120, 97, 81, 57, 107,
       89, 71, 122, 122, 104, 90, 82, 98, 75, 43, 120, 79, 111, 61>>
AcceptOfKey2 ==
    <<67, 47, 48, 110, 109, 72, 104, 66, 122, 116, 83, 82, 71, 82,
       49, 67, 119, 76, 54, 84, 102, 52, 90, 106, 119, 112, 89, 61>>
ExpectedAccept(key) ==
    IF key = Key1 THEN AcceptOfKey1
    ELSE IF key = Key2 THEN AcceptOfKey2 ELSE <<>>

\* the server connection is, or has been, in frame mode
InFrameMode ==
    /\ role = "server"
    /\ \/ spc \in {"frameLoop", "crashed"}
       \/ last.step = "frame"
       \/ \E i \in 1..Len(outw) : outw[i].kind = "frame"

\* C10: the server reads and writes frames only after it wrote the 101
\* response whose Sec-WebSocket-Accept is the token of the key of the
\* request it read; that response is the one HTTP response of the
\* connection, and the connection never goes back to reading a request.
C10_FramesOnlyAfter101 ==
    /\ [](InFrameMode =>
            /\ Len(outw) >= 1
            /\ outw[1].kind = "http" /\ outw[1].status = 101
            /\ outw[1].accept =
                   ExpectedAccept(HeaderGet(hmsg.header, "Sec-WebSocket-Key"))
            /\ outw[1].accept # <<>>
            /\ \A i \in 2..Len(outw) : outw[i].kind = "frame")
    /\ [][ /\ (role = "server" /\ Len(inbuf') < Len(inbuf)) =>
                spc = "frameLoop"
           /\ (role = "server" /\ spc # "readRequest") =>
                spc' # "readRequest" ]_vars

\* after the request with Key2 and its 101, a Text frame was read and its
\* echo written
C10_Witness ==
    /\ role = "server"
    /\ HeaderGet(hmsg.header, "Sec-WebSocket-Key") = Key2
    /\ last.step = "frame" /\ last.f.err = "nil" /\ last.f.opcode = 1
    /\ Len(outw) = 2
    /\ outw[1].status = 101 /\ outw[1].accept = AcceptOfKey2
    /\ outw[2].kind = "frame"

-----------------------------------------------------------------------------
(* The client's handshake, under Spec *)

\* the response the client read is whole and is to be refused: no 101 in
\* its status line, or an accept value (none when the header is missing)
\* that is not the token of the client's key
Refused ==
    /\ role = "client" /\ ~hmsg.none /\ hmsg.ok
    /\ \/ ~Contains(hmsg.line, Str101)
       \/ AcceptOf(hmsg.header) # ExpectedAccept(hkey)

\* C11: after a response without 101 in its status line, or whose
\* Sec-WebSocket-Accept is missing or is not the token of the client's own
\* key, the client is done: it has written its request and no frame, and
\* readMessages was never started.
C11_ClientHandshakeFailureIsFatal ==
    Refused =>
        /\ cmain = "done"
        /\ crd = "off"
        /\ Len(outw) = 1 /\ outw[1].kind = "request"
        /\ last.step \in {"not101", "badAccept"}

\* a 101 response that carries the accept token of another key was refused
C11_Witness ==
    /\ Refused
    /\ Contains(hmsg.line, Str101)
    /\ AcceptOf(hmsg.header) # <<>>
    /\ AcceptOf(hmsg.header) # AcceptOfKey1
    /\ cmain = "done" /\ crd = "off"
    /\ last.step = "badAccept"

-----------------------------------------------------------------------------
(* Errors of the server's frame loop, under Spec *)

\* a turn of the server's frame loop, whether or not it took bytes
ServerLoopStep ==
    /\ role = "server" /\ spc = "frameLoop"
    /\ spc' # spc \/ last' # last \/ Len(inbuf') < Len(inbuf)

\* the stream gives readFrame an error: it ended before the 2 header bytes,
\* or readFrame returns the error of a read
ReadFails ==
    \/ Len(inbuf) < 2
    \/ \A mem \in BOOLEAN :
          readFrame(inbuf, mem).err \in {"EOF", "ErrUnexpectedEOF"}

\* C12: a read error returned by readFrame ends the server's loop: the
\* turn writes nothing and closes the connection, and a closed connection
\* is never read from or written to again.
C12_ReadErrorIsFatal ==
    [][ /\ (ServerLoopStep /\ ReadFails) =>
              /\ spc' = "closed"
              /\ outw' = outw
        /\ ClosedIsFinal ]_vars

\* the stream ended within a frame: readFrame returned the error, nothing
\* was written after the 101 and the connection is closed
C12_Witness ==
    /\ role = "server" /\ spc = "closed" /\ inEOF
    /\ last.step = "frame" /\ last.f.err = "ErrUnexpectedEOF"
    /\ Len(outw) = 1 /\ outw[1].status = 101

\* C13: a frame whose header announces a length beyond any ceiling (here
\* 2^64 - 1 and 2^47, which make([]byte, length) cannot allocate, and 2^31
\* on a machine without that much memory) is refused as a
\* protocol violation: the loop that read it ends like on an error, the
\* server's connection closed, the client's readMessages done; the
\* allocation is not attempted.
C13_OversizedLengthIsRefused ==
    (last.step \in {"frame", "cframe"}
        /\ last.f.err \in {"panic", "fatal"}) =>
        /\ role = "server" => spc = "closed"
        /\ role = "client" => crd = "done"

-----------------------------------------------------------------------------
(* The server process (part_000): main's accept loop and one goroutine of  *)
(* handleWebSocket for each connection accepted.  A connection is          *)
(* [st, req, inbuf, eof, broken, out]: the position of its handler, the    *)
(* request and the bytes its peer sends, whether the peer then closes the  *)
(* stream, whether it has reset the connection, and the conn.Write calls   *)
(* of the handler.  st "killed" is a handler that ended because the        *)
(* process ended.                                                          *)

\* what a peer does on its connection
Script(req, bytes, eof) == [req |-> req, bytes |-> bytes, eof |-> eof]

UpgradeRequest ==
    Request(<< <<"Upgrade", StrWebsocket>>, <<"Connection", StrUpgradeCap>>,
               <<"Sec-WebSocket-Key", Key1>> >>)
PlainRequest ==
    Request(<< <<"Connection", StrKeepAlive>> >>)

PeerScripts ==
    { \* connects and sends nothing
      Script(NoHttp, <<>>, FALSE),
      \* a request that is not an upgrade request
      Script(PlainRequest, <<>>, TRUE),
      \* the handshake, then nothing
      Script(UpgradeRequest, <<>>, FALSE),
      \* a Text frame, then the end of the stream
      Script(UpgradeRequest, MaskedFrame(129, PeerKey, StrHi), TRUE),
      \* a truncated frame
      Script(UpgradeRequest, <<129, 254>>, TRUE),
      \* a frame announcing 2^31 bytes, then the end of the stream
      Script(UpgradeRequest,
             <<130, 255, 0, 0, 0, 0, 128, 0, 0, 0>> \o PeerKey \o <<1, 2, 3>>,
             TRUE),
      \* a frame announcing 2^47 bytes
      Script(UpgradeRequest,
             <<130, 255, 0, 0, 128, 0, 0, 0, 0, 0>> \o PeerKey \o <<1>>,
             FALSE),
      \* a frame announcing 2^64 - 1 bytes
      Script(UpgradeRequest,
             <<130, 255, 255, 255, 255, 255, 255, 255, 255, 255>> \o PeerKey,
             FALSE),
      \* a reserved opcode, then Close
      Script(UpgradeRequest,
             MaskedFrame(131, PeerKey, <<>>) \o MaskedFrame(136, PeerKey, <<>>),
             FALSE),
      \* Ping, then Text
      Script(UpgradeRequest,
             MaskedFrame(137, PeerKey, StrAbc)
                 \o MaskedFrame(129, PeerKey, StrHi),
             FALSE) }

\* conn.Write(w) on a connection: it fails once the peer has reset it
WriteOn(w, broken) == [w EXCEPT !.ok = ~broken]

\* handleWebSocket lines 58-91 for the request req on a connection that is
\* broken or not; the errors of these writes are dropped
HandshakeOf(req, broken) ==
    IF req.none \/ ~req.ok
    THEN [out |-> <<>>, st |-> "closed"]
    ELSE IF ~isWebSocketUpgrade(req)
            \/ HeaderGet(req.header, "Sec-WebSocket-Key") = <<>>
    THEN [out |-> <<WriteOn(BadRequestResponse, broken)>>, st |-> "closed"]
    ELSE [out |-> <<WriteOn(HttpWrite(101, computeAcceptKey(
                       HeaderGet(req.header, "Sec-WebSocket-Key"))),
                       broken)>>,
          st |-> "frameLoop"]

\* handleWebSocket lines 96-128 for the result f of readFrame on a
\* connection that is broken or not: the handler returns when the write of
\* the echo fails (lines 108-112); the errors of the other writes are
\* dropped
FrameTurn(f, broken) ==
    IF f.err \in {"panic", "fatal"} THEN [out |-> <<>>, st |-> "crashed"]
    ELSE IF f.err # "nil" THEN [out |-> <<>>, st |-> "closed"]
    ELSE IF f.opcode = 1
    THEN [out |-> <<WriteOn(FrameWrite(TextReply(f.payload)), broken)>>,
          st |-> IF broken THEN "closed" ELSE "frameLoop"]
    ELSE IF f.opcode = 8
    THEN [out |-> <<WriteOn(FrameWrite(CloseReply), broken)>>,
          st |-> "closed"]
    ELSE IF f.opcode = 9
    THEN [out |-> <<WriteOn(FrameWrite(PongReply(f.payload)), broken)>>,
          st |-> "frameLoop"]
    ELSE [out |-> <<>>, st |-> "frameLoop"]

\* line 46: "go handleWebSocket(conn)" starts the handler and the loop goes
\* back to Accept
AfterSpawnInline == "handling"
AfterSpawn == "accepting"

\* an unrecovered panic in a goroutine ends the process, and with it every
\* handler that was running
Panicked(cs, i) ==
    [j \in 1..Len(cs) |->
        IF j = i THEN [cs[j] EXCEPT !.st = "crashed"]
        ELSE IF cs[j].st \in {"readRequest", "frameLoop"}
        THEN [cs[j] EXCEPT !.st = "killed"]
        ELSE cs[j]]

\* main lines 39-46: Accept returns a connection
Accept ==
    /\ proc = "accepting" /\ Len(conns) < MaxConns
    /\ \E s \in PeerScripts :
          conns' = Append(conns, [st |-> "readRequest", req |-> s.req,
                                  inbuf |-> s.bytes, eof |-> s.eof,
                                  broken |-> FALSE, out |-> <<>>])
    /\ proc' = AfterSpawn
    /\ UNCHANGED <<nerr, codecVars, connVars, relayVars>>

\* main lines 40-44: Accept returns an error
AcceptError ==
    /\ proc = "accepting" /\ nerr < MaxAcceptErrors
    /\ nerr' = nerr + 1
    /\ UNCHANGED <<proc, conns, codecVars, connVars, relayVars>>

\* the peer of a connection whose stream ends resets it instead of closing
\* it in order: the writes of the handler fail from then on
PeerReset ==
    /\ proc \notin {"off", "crashed"}
    /\ \E i \in 1..Len(conns) :
          /\ conns[i].st \in {"readRequest", "frameLoop"}
          /\ conns[i].eof /\ ~conns[i].broken
          /\ conns' = [conns EXCEPT ![i].broken = TRUE]
    /\ UNCHANGED <<proc, nerr, codecVars, connVars, relayVars>>

\* a handler reads the request (lines 58-91)
HandlerHandshake ==
    /\ proc \notin {"off", "crashed"}
    /\ \E i \in 1..Len(conns) :
          /\ conns[i].st = "readRequest"
          /\ ~conns[i].req.none \/ conns[i].eof
          /\ LET r == HandshakeOf(conns[i].req, conns[i].broken)
             IN  conns' = [conns EXCEPT ![i].st = r.st,
                                        ![i].out = @ \o r.out,
                                        ![i].req = NoHttp]
    /\ UNCHANGED <<proc, nerr, codecVars, connVars, relayVars>>

\* a handler makes one turn of its frame loop (lines 94-128)
HandlerFrame ==
    /\ proc \notin {"off", "crashed"}
    /\ \E i \in 1..Len(conns) :
          /\ conns[i].st = "frameLoop"
          /\ \E mem \in BOOLEAN :
             LET f == readFrame(conns[i].inbuf, mem)
                 r == FrameTurn(f, conns[i].broken)
             IN  /\ ~f.short \/ conns[i].eof
                 /\ IF r.st = "crashed"
                    THEN /\ conns' = Panicked(conns, i)
                         /\ proc' = "crashed"
                    ELSE /\ conns' = [conns EXCEPT
                                         ![i].st = r.st,
                                         ![i].out = @ \o r.out,
                                         ![i].inbuf = Rest(@, f)]
                         /\ UNCHANGED proc
    /\ UNCHANGED <<nerr, codecVars, connVars, relayVars>>

ServerInit ==
    /\ CodecIdle
    /\ role = "process"
    /\ httpIn = NoHttp /\ inbuf = <<>> /\ inEOF = FALSE /\ wbroken = FALSE
    /\ nsent = 0 /\ outw = <<>>
    /\ spc = "off" /\ cmain = "off" /\ crd = "off"
    /\ hkey = <<>> /\ hmsg = NoHttp /\ nin = 0
    /\ last = Step("none", NoFrame, 0)
    /\ proc = "accepting" /\ conns = <<>> /\ nerr = 0
    /\ RelayIdle

ServerNext ==
    \/ Accept
    \/ AcceptError
    \/ PeerReset
    \/ HandlerHandshake
    \/ HandlerFrame

SpecServer == ServerInit /\ [][ServerNext]_vars

-----------------------------------------------------------------------------
(* Properties of the server process, under SpecServer *)

\* C14: whatever a peer sends on its connection, the failure stays on that
\* connection: the process keeps running (the accept loop with it) and no
\* handler of another connection ends because of it.
C14_FailuresStayLocal ==
    /\ proc # "crashed"
    /\ \A i \in 1..Len(conns) : conns[i].st # "killed"

\* C20: the accept loop does not wait for the handlers: as long as the
\* process runs it can accept the next connection, whatever the handlers of
\* the connections accepted before are blocked in, and it is still
\* accepting after Accept has returned an error.
C20_AcceptLoopNeverWaits ==
    proc # "crashed" =>
        /\ proc = "accepting"
        /\ Len(conns) < MaxConns => ENABLED Accept
        /\ nerr < MaxAcceptErrors => ENABLED AcceptError

\* after a failed Accept, two connections were accepted: the handler of the
\* first is blocked reading the request, the handler of the second is
\* blocked reading a frame, and the loop is accepting
C20_Witness ==
    /\ proc = "accepting" /\ nerr >= 1
    /\ Len(conns) >= 2
    /\ conns[1].st = "readRequest" /\ conns[1].req.none /\ ~conns[1].eof
    /\ conns[2].st = "frameLoop" /\ conns[2].inbuf = <<>> /\ ~conns[2].eof
    /\ Len(conns[2].out) = 1

-----------------------------------------------------------------------------
(* Order of the server's reads and writes, under Spec *)

\* the reply the server owes to the frame with this opcode and payload;
\* <<>> when it owes none
ReplyDue(opcode, payload) ==
    IF opcode = 1
    THEN <<129, Len(StrServerReceived) + Len(payload)>>
             \o StrServerReceived \o payload
    ELSE IF opcode = 8 THEN <<136, 0>>
    ELSE IF opcode = 9 THEN <<138, Len(payload)>> \o payload
    ELSE <<>>

\* C15: each turn of the server's loop takes the frame at the front of the
\* bytes received, leaves the bytes behind it untouched, and appends the
\* reply to that frame (if it has one) after all the replies written
\* before; the reply is written in the same turn, before the next frame is
\* read.  So the replies are in the order of the frames.
C15_RepliesInArrivalOrder ==
    [][ ServerLoopStep =>
          LET f == readFrame(inbuf, TRUE)
          IN  f.err = "nil" =>
                /\ inbuf' = SubSeq(inbuf, f.used + 1, Len(inbuf))
                /\ SubSeq(outw', 1, Len(outw)) = outw
                /\ IF ReplyDue(f.opcode, f.payload) = <<>>
                   THEN outw' = outw
                   ELSE /\ Len(outw') = Len(outw) + 1
                        /\ outw'[Len(outw')].kind = "frame"
                        /\ outw'[Len(outw')].data
                               = ReplyDue(f.opcode, f.payload) ]_vars

\* a Ping and a Text frame were received, in this order: after the 101 the
\* Pong was written, then the echo
C15_Witness ==
    /\ role = "server" /\ Len(outw) = 3
    /\ outw[1].status = 101
    /\ outw[2].data = <<138, 3>> \o StrAbc
    /\ outw[3].data = ReplyDue(1, StrHi)
    /\ last.step = "frame" /\ last.f.opcode = 1

-----------------------------------------------------------------------------
(* The client's writes, under Spec.  outw has one element for each call of *)
(* conn.Write; concurrent calls of Write on one net.Conn are serialised by *)
(* the connection, so the wire carries the elements one after the other.   *)

RECURSIVE Concat(_)
Concat(ws) == IF ws = <<>> THEN <<>> ELSE Head(ws).data \o Concat(Tail(ws))

\* the frame writes of the log
FrameWrites == SelectSeq(outw, LAMBDA w : w.kind = "frame")

\* the frames the server's readFrame finds in the bytes w, as byte
\* strings; <<-1>> stands for bytes that are no frame
RECURSIVE FramesIn(_)
FramesIn(w) ==
    IF w = <<>> THEN <<>>
    ELSE LET f == readFrame(w, TRUE)
         IN  IF f.err # "nil" \/ f.short \/ f.used = 0 THEN << <<-1>> >>
             ELSE <<SubSeq(w, 1, f.used)>> \o FramesIn(Rest(w, f))

\* C16: every writeFrame call of the client is one conn.Write of one whole
\* frame (header, mask key, payload); so what the client's two goroutines
\* put on the wire (Pong from readMessages, Text and Close from main) reads
\* back as exactly the frames written, one after the other.
C16_OneWritePerFrame ==
    /\ [](role = "client" =>
            /\ \A i \in 1..Len(FrameWrites) :
                  IsMaskedFrame(FrameWrites[i].data)
            /\ FramesIn(Concat(FrameWrites))
                   = [i \in 1..Len(FrameWrites) |-> FrameWrites[i].data])
    /\ [][role = "client" => Len(outw') <= Len(outw) + 1]_vars

\* the reader wrote a Pong and main wrote a Text frame on one connection
C16_Witness ==
    /\ role = "client" /\ Len(FrameWrites) = 2
    /\ \E i, j \in 1..2 :
          /\ FrameWrites[i].data[1] = 138
          /\ FrameWrites[j].data[1] = 129
    /\ FramesIn(Concat(FrameWrites))
           = <<FrameWrites[1].data, FrameWrites[2].data>>

-----------------------------------------------------------------------------
(* Data and Pong frames, the client's close, under Spec *)

\* C17: a Text or a Binary frame received by the server's loop is handled
\* and answered: the turn that read it wrote one frame in reply.
C17_DataFramesAreAnswered ==
    (role = "server" /\ last.step = "frame" /\ last.f.err = "nil"
         /\ last.f.opcode \in {1, 2}) =>
        /\ last.writes = 1
        /\ Len(outw) >= 2 /\ outw[Len(outw)].kind = "frame"

\* the bytes received start with a whole frame of this opcode
FrontFrame(f, opcode) ==
    /\ Len(inbuf) >= 2 /\ inbuf[1] % 16 = opcode
    /\ f.err = "nil" /\ ~f.short

\* C18: a Pong frame received by the server's loop or by the client's
\* readMessages is answered by nothing, and the loop goes on reading.
C18_PongHasNoReply ==
    [][ /\ (ServerFrameStep /\ FrontFrame(readFrame(inbuf, TRUE), 10)) =>
              /\ outw' = outw
              /\ spc' = "frameLoop"
        /\ (ClientReadStep /\ FrontFrame(clientReadFrame(inbuf, TRUE), 10)) =>
              /\ outw' = outw
              /\ crd' = "reading"
              /\ cmain' = cmain ]_vars

\* the server has read a Pong "abc": it wrote nothing after the 101 and
\* reads on
C18_Witness ==
    /\ role = "server" /\ spc = "frameLoop"
    /\ last.step = "frame" /\ last.f.err = "nil" /\ last.f.opcode = 10
    /\ last.f.payload = StrAbc
    /\ Len(outw) = 1 /\ outw[1].status = 101

\* the Close frames among the client's writes
CloseWrites == SelectSeq(FrameWrites, LAMBDA w : w.data[1] = 136)

\* main has sent the Close frame of "quit"
CloseSent ==
    role = "client" /\ cmain \in {"closing", "done"} /\ Len(CloseWrites) >= 1

\* C19: once the client's main has sent its Close frame, the Close frame
\* received from the server stops readMessages without any write, and from
\* then on the client writes nothing: no second Close, no other frame.
C19_CloseCompletesWithoutReply ==
    /\ [](role = "client" => Len(CloseWrites) <= 1)
    /\ [][ /\ (CloseSent /\ ClientReadStep
                  /\ FrontFrame(clientReadFrame(inbuf, TRUE), 8)) =>
                 /\ outw' = outw
                 /\ crd' = "done"
           /\ (CloseSent /\ crd = "done") =>
                 /\ outw' = outw
                 /\ crd' = "done" ]_vars

\* after "quit" the server's Close arrived: the reader is done and the
\* client's Close is its last write
C19_Witness ==
    /\ CloseSent /\ crd = "done"
    /\ last.step = "cframe" /\ last.f.err = "nil" /\ last.f.opcode = 8
    /\ Len(CloseWrites) = 1
    /\ outw[Len(outw)].kind = "frame" /\ outw[Len(outw)].data[1] = 136

-----------------------------------------------------------------------------
(* Calls of the pure functions: isWebSocketUpgrade, computeAcceptKey       *)
(* (server and client), the masking loop of the client's writeFrame and    *)
(* the unmasking loop of the server's readFrame.  cin is the call          *)
(* [fn, r, key, payload], cwire the masked payload, cres the result.       *)

\* "", "WEBSOCKET", "websocket2", "websocke"
StrWebsocketUpper == <<87, 69, 66, 83, 79, 67, 75, 69, 84>>
StrWebsocket2 == StrWebsocket \o <<50>>
StrWebsocke == SubSeq(StrWebsocket, 1, 8)
\* "upgrade" in other cases and cut short: "UPGRADE", "upgrad"
StrUpgradeUpper == <<85, 80, 71, 82, 65, 68, 69>>
StrUpgrad == SubSeq(StrUpgrade, 1, 6)
\* U+212A KELVIN SIGN, whose lower case is "k"
StrKelvin == <<226, 132, 170>>
\* "WEBSOC" KELVIN SIGN "ET"
StrWebsocketKelvin == <<87, 69, 66, 83, 79, 67>> \o StrKelvin \o <<69, 84>>
\* "websocket" and a byte that is not UTF-8
StrWebsocketFF == StrWebsocket \o <<255>>
\* U+00C9 (E acute), ", UPGRADE"
StrEAcuteUpgrade == <<195, 137, 44, 32>> \o StrUpgradeUpper
\* U+00DC (U diaeresis) "PGRADE"
StrUmlautUpgrade == <<195, 156>> \o SubSeq(StrUpgradeUpper, 2, 7)

\* the values of a header in the requests of the calls; <<-1>>: no header
UpgradeValues ==
    { <<-1>>, <<>>, StrWebsocket, StrWebSocketMixed, StrWebsocketUpper,
      StrWebsocket2, StrWebsocke, StrUpgrade, StrWebsocketKelvin,
      StrWebsocketFF }
ConnectionValues ==
    { <<-1>>, <<>>, StrUpgrade, StrUpgradeCap, StrUpgradeUpper,
      StrKeepAliveUpgrade, StrKeepAlive, StrUpgrad, StrWebsocket,
      StrEAcuteUpgrade, StrUmlautUpgrade }

HeaderOf(name, value) ==
    IF value = <<-1>> THEN <<>> ELSE << <<name, value>> >>

CallRequests ==
    { Request(HeaderOf("Upgrade", u) \o HeaderOf("Connection", c)) :
          u \in UpgradeValues, c \in ConnectionValues }

\* a third mask key, with the high bit in play
MaskKey3 == <<255, 1, 128, 7>>

CallInputs ==
    [fn : {"isWebSocketUpgrade"}, r : CallRequests, key : {<<>>},
     payload : {<<>>}]
      \cup [fn : {"computeAcceptKey", "clientComputeAcceptKey"}, r : {NoHttp},
            key : HandshakeKeys \cup {StrAbc}, payload : {<<>>}]
      \cup [fn : {"mask"}, r : {NoHttp}, key : MaskKeys \cup {MaskKey3},
            payload : { Payload(n, p) : n \in 0..MaxMaskLen,
                                        p \in 0..(NPat - 1) }]

NoResult == [ret |-> "none"]

CallInit ==
    /\ cpc = "input"
    /\ cin \in CallInputs
    /\ cwire = <<>>
    /\ cres = NoResult
    /\ ConnIdle
    /\ ProcIdle
    /\ RelayIdle

CallIsWebSocketUpgrade ==
    /\ cpc = "input" /\ cin.fn = "isWebSocketUpgrade"
    /\ cres' = [ret |-> isWebSocketUpgrade(cin.r)]
    /\ cpc' = "returned"
    /\ UNCHANGED <<cin, cwire, connVars, procVars, relayVars>>

CallComputeAcceptKey ==
    /\ cpc = "input" /\ cin.fn = "computeAcceptKey"
    /\ cres' = [ret |-> computeAcceptKey(cin.key)]
    /\ cpc' = "returned"
    /\ UNCHANGED <<cin, cwire, connVars, procVars, relayVars>>

CallClientComputeAcceptKey ==
    /\ cpc = "input" /\ cin.fn = "clientComputeAcceptKey"
    /\ cres' = [ret |-> clientComputeAcceptKey(cin.key)]
    /\ cpc' = "returned"
    /\ UNCHANGED <<cin, cwire, connVars, procVars, relayVars>>

\* part_001 lines 227-230: the client masks the payload
CallMask ==
    /\ cpc = "input" /\ cin.fn = "mask"
    /\ cwire' = MaskPayload(cin.payload, cin.key)
    /\ cpc' = "masked"
    /\ UNCHANGED <<cin, cres, connVars, procVars, relayVars>>

\* part_000 lines 194-198: the server unmasks what the client masked
CallUnmask ==
    /\ cpc = "masked" /\ cin.fn = "mask"
    /\ cres' = [ret |-> Unmask(cwire, cin.key)]
    /\ cpc' = "returned"
    /\ UNCHANGED <<cin, cwire, connVars, procVars, relayVars>>

CallNext ==
    \/ CallIsWebSocketUpgrade
    \/ CallComputeAcceptKey
    \/ CallClientComputeAcceptKey
    \/ CallMask
    \/ CallUnmask

SpecCalls == CallInit /\ [][CallNext]_vars

\* a is the lower-case ASCII word b up to case: each letter of b stands in
\* a as itself, as its capital or, for "k", as the KELVIN SIGN, the one
\* other capital of Unicode whose lower case is a letter of the two words
\* a equals b up to the case of the ASCII letters; b is in lower case
FoldEq(a, b) ==
    /\ Len(a) = Len(b)
    /\ \A i \in 1..Len(b) :
          a[i] = b[i] \/ (b[i] \in 97..122 /\ a[i] = b[i] - 32)

\* the value of the header name of request r, <<-1>> when r has none
RawHeader(r, name) ==
    IF \E i \in 1..Len(r.header) : r.header[i][1] = name
    THEN r.header[CHOOSE i \in 1..Len(r.header) : r.header[i][1] = name][2]
    ELSE <<-1>>

\* C21: isWebSocketUpgrade returns true iff the Upgrade value is
\* "websocket" up to the case of its letters and the Connection value has
\* "upgrade" up to the case of its letters as a substring; false when a
\* header is absent.  The header values are bytes and the case is that of
\* the ASCII letters, as HTTP compares tokens.
C21_IsWebSocketUpgrade ==
    (cpc = "returned" /\ cin.fn = "isWebSocketUpgrade") =>
        LET u == RawHeader(cin.r, "Upgrade")
            c == RawHeader(cin.r, "Connection")
        IN  /\ cres.ret \in BOOLEAN
            /\ cres.ret <=>
                 /\ u # <<-1>> /\ c # <<-1>>
                 /\ FoldEq(u, StrWebsocket)
                 /\ \E i \in 0..(Len(c) - 7) :
                       FoldEq(SubSeq(c, i + 1, i + 7), StrUpgrade)

\* the accept token of the key "abc": "zwKd5BnoWxQ6GxTxxSmBSHGHX9M="
AcceptOfAbc ==
    <<122, 119, 75, 100, 53, 66, 110, 111, 87, 120, 81, 54, 71, 120,
       84, 120, 120, 83, 109, 66, 83, 72, 71, 72, 88, 57, 77, 61>>

\* base64(SHA-1(key + GUID)) of the keys of the calls, computed outside
TokenOf(key) ==
    IF key = StrAbc THEN AcceptOfAbc ELSE ExpectedAccept(key)

\* C22: computeAcceptKey(key) is base64(SHA-1(key + GUID)): for
\* "dGhlIHNhbXBsZSBub25jZQ==" it returns "s3pPLMBiTxaQ9kYGzzhZRbK+xOo=",
\* and the server's and the client's function return the same token for
\* every key.
C22_AcceptKeyIsRfcToken ==
    (cpc = "returned"
         /\ cin.fn \in {"computeAcceptKey", "clientComputeAcceptKey"}) =>
        /\ cres.ret = TokenOf(cin.key)
        /\ Len(cres.ret) = 28
        /\ computeAcceptKey(cin.key) = clientComputeAcceptKey(cin.key)

\* the server's function returned the token of the RFC's sample key
C22_Witness ==
    /\ cpc = "returned" /\ cin.fn = "computeAcceptKey"
    /\ cin.key = Key1
    /\ cres.ret = AcceptOfKey1

\* C23: masking is an involution: the payload the client masked with a key
\* and the server unmasked with the same key is the payload.
C23_MaskingIsInvolution ==
    (cpc = "returned" /\ cin.fn = "mask") =>
        /\ cres.ret = cin.payload
        /\ Len(cwire) = Len(cin.payload)
        /\ \A i \in 1..Len(cin.payload) :
              \A k \in Byte : Xor(Xor(cin.payload[i], k), k) = cin.payload[i]

\* 9 bytes went through a key that changes each of them, and came back
C23_Witness ==
    /\ cpc = "returned" /\ cin.fn = "mask"
    /\ Len(cin.payload) = 9 /\ cin.key = MaskKey3
    /\ \A i \in 1..9 : cwire[i] # cin.payload[i]
    /\ cres.ret = cin.payload

-----------------------------------------------------------------------------
(* More properties of the codec, under SpecCodec *)

\* the bytes w with the FIN bit of the first byte cleared
ClearFin(w) == [w EXCEPT ![1] = @ % 128]

\* C25: readFrame (server and client) does not look at the FIN bit: the
\* bytes of a frame with FIN = 0 decode to the payload, opcode and error
\* of the same bytes with FIN = 1, and take as many bytes of the stream,
\* none of a frame that follows.
C25_FinBitIsIgnored ==
    cpc = "decoded" =>
        LET rd(s) == IF cin.side = "client" THEN readFrame(s, TRUE)
                     ELSE clientReadFrame(s, TRUE)
            r0 == rd(ClearFin(cwire))
        IN  /\ cwire[1] >= 128
            /\ r0.payload = cres.payload
            /\ r0.opcode = cres.opcode
            /\ r0.err = cres.err
            /\ r0.used = cres.used
            /\ cin.cut = -1 =>
                  rd(ClearFin(cwire) \o <<129, 0>>).used = Len(cwire)

\* a Text frame of the client, read with FIN = 0: the payload, no error
C25_Witness ==
    /\ WholeRun("client") /\ cin.opcode = 1
    /\ Len(cin.payload) >= Tier16
    /\ ClearFin(cwire)[1] = 1
    /\ readFrame(ClearFin(cwire), TRUE).err = "nil"
    /\ readFrame(ClearFin(cwire), TRUE).payload = cin.payload

\* C26: round trip from the server to the client.  The client's readFrame,
\* given the bytes the server's writeFrame emitted for payload p and opcode
\* o, returns p and o and no error, and takes no byte of what follows.
C26_UnmaskedRoundTrip ==
    WholeRun("server") =>
        /\ cres.err = "nil"
        /\ cres.payload = cin.payload
        /\ cres.opcode = cin.opcode
        /\ cres.used = Len(cwire)
        /\ clientReadFrame(cwire \o <<129, 0>>, TRUE).used = Len(cwire)
        /\ SubSeq(cwire, Len(cwire) - Len(cin.payload) + 1, Len(cwire))
               = cin.payload

\* a payload of the 2-byte tier went from the server to the client
C26_Witness ==
    /\ WholeRun("server")
    /\ Len(cin.payload) = Tier16 + LenSlack - 1
    /\ cin.opcode = 10
    /\ cwire[2] = 126
    /\ cres.payload = cin.payload /\ cres.opcode = 10

-----------------------------------------------------------------------------
(* The client's two readers, under Spec *)

\* C27: no byte the server sent behind its 101 response is lost between
\* performHandshake and readMessages: the bytes received when the client
\* accepts the response are the bytes readMessages' reader starts with.
C27_NoByteLostAcrossHandshake ==
    [][ (role = "client" /\ cmain = "awaitResponse" /\ cmain' = "input") =>
            inbuf' = inbuf ]_vars

(***************************************************************************)
(* The signaling relay (network/webrtc/server/go/main.go): one handleWS    *)
(* goroutine per peer, one relay goroutine, the clients map they share     *)
(* without a lock, and the unbuffered broadcast channel between them       *)
(***************************************************************************)

\* the connections of a run
RelayPeers == {"a", "b", "c"}

\* messages the peers send in a run, all peers together
MaxRelayMsgs == 2

\* the payload each peer sends
RelayPayload == [c \in RelayPeers |->
                    IF c = "a" THEN StrHi ELSE IF c = "b" THEN StrAbc
                    ELSE <<>>]

\* the number of messages ReadMessage has returned, all peers together
RECURSIVE SumOver(_, _)
SumOver(f, S) ==
    IF S = {} THEN 0
    ELSE LET c == CHOOSE x \in S : TRUE IN f[c] + SumOver(f, S \ {c})

NoMsg == [data |-> <<>>, sender |-> "none"]

\* the relay goroutine between two messages
RelayWaiting ==
    [pc |-> "recv", msg |-> NoMsg, start |-> {}, visited |-> {},
     cur |-> "none"]

RelayInit ==
    /\ CodecIdle
    /\ ProcIdle
    /\ role = "relay"
    /\ httpIn = NoHttp /\ inbuf = <<>> /\ inEOF = FALSE /\ wbroken = FALSE
    /\ nsent = 0 /\ outw = <<>>
    /\ spc = "off" /\ cmain = "off" /\ crd = "off"
    /\ hkey = <<>> /\ hmsg = NoHttp /\ nin = 0
    /\ last = Step("none", NoFrame, 0)
    /\ handlers = [c \in RelayPeers |-> [pc |-> "idle", msg |-> NoMsg]]
    /\ clients = {}
    /\ broadcast = <<>>
    /\ rly = RelayWaiting
    /\ wrote = [c \in RelayPeers |-> <<>>]
    /\ rread = [c \in RelayPeers |-> 0]

\* the process runs: no goroutine has hit a fatal error of the runtime
RelayAlive == role = "relay" /\ rly.pc # "fatal"

\* handleWS: upgrader.Upgrade yields conn (a failed Upgrade returns before
\* it touches anything shared) and clients[conn] = true, the store into the
\* map, begins
WsUpgrade(c) ==
    /\ RelayAlive /\ handlers[c].pc = "idle"
    /\ handlers' = [handlers EXCEPT ![c].pc = "adding"]
    /\ UNCHANGED <<clients, broadcast, rly, wrote, rread, procVars,
                   codecVars, connVars>>

\* handleWS: clients[conn] = true, the store into the map is complete
WsInsertEnd(c) ==
    /\ RelayAlive /\ handlers[c].pc = "adding"
    /\ clients' = clients \cup {c}
    /\ handlers' = [handlers EXCEPT ![c].pc = "read"]
    /\ UNCHANGED <<broadcast, rly, wrote, rread, procVars, codecVars,
                   connVars>>

\* handleWS: conn.ReadMessage returns a message of the peer
WsReadMessage(c) ==
    /\ RelayAlive /\ handlers[c].pc = "read"
    /\ SumOver(rread, RelayPeers) < MaxRelayMsgs
    /\ handlers' = [handlers EXCEPT
                       ![c] = [pc |-> "send",
                               msg |-> [data |-> RelayPayload[c],
                                        sender |-> c]]]
    /\ rread' = [rread EXCEPT ![c] = @ + 1]
    /\ UNCHANGED <<clients, broadcast, rly, wrote, procVars, codecVars,
                   connVars>>

\* handleWS: conn.ReadMessage returns an error, and delete(clients, conn),
\* the removal from the map, begins
WsReadError(c) ==
    /\ RelayAlive /\ handlers[c].pc = "read"
    /\ handlers' = [handlers EXCEPT ![c].pc = "deleting"]
    /\ UNCHANGED <<clients, broadcast, rly, wrote, rread, procVars,
                   codecVars, connVars>>

\* handleWS: delete(clients, conn), the removal from the map is complete
WsDeleteEnd(c) ==
    /\ RelayAlive /\ handlers[c].pc = "deleting"
    /\ clients' = clients \ {c}
    /\ handlers' = [handlers EXCEPT ![c].pc = "close"]
    /\ UNCHANGED <<broadcast, rly, wrote, rread, procVars, codecVars,
                   connVars>>

\* handleWS: conn.Close() and return
WsClose(c) ==
    /\ RelayAlive /\ handlers[c].pc = "close"
    /\ handlers' = [handlers EXCEPT ![c].pc = "closed"]
    /\ UNCHANGED <<clients, broadcast, rly, wrote, rread, procVars,
                   codecVars, connVars>>

\* broadcast <- message{...} in handleWS meets msg := <-broadcast in relay:
\* the channel has no buffer, so the send and the receive are one step, and
\* the range over clients begins
RelayReceive(c) ==
    /\ RelayAlive /\ handlers[c].pc = "send" /\ rly.pc = "recv"
    /\ rly' = [pc |-> "range", msg |-> handlers[c].msg, start |-> clients,
               visited |-> {}, cur |-> "none"]
    /\ handlers' = [handlers EXCEPT ![c] = [pc |-> "read", msg |-> NoMsg]]
    /\ UNCHANGED <<clients, broadcast, wrote, rread, procVars, codecVars,
                   connVars>>

\* relay: the test of the loop body, c != msg.sender
Forwardable(c, msg) == c # msg.sender

\* relay: the range yields the next key of the map, one it has not yielded
\* in this round, and the loop body tests it
RelayRangeNext ==
    /\ RelayAlive /\ rly.pc = "range"
    /\ \E c \in clients \ rly.visited :
          rly' = [rly EXCEPT
                     !.visited = @ \cup {c},
                     !.pc = IF Forwardable(c, rly.msg) THEN "write"
                            ELSE "range",
                     !.cur = IF Forwardable(c, rly.msg) THEN c ELSE "none"]
    /\ UNCHANGED <<handlers, clients, broadcast, wrote, rread, procVars,
                   codecVars, connVars>>

\* relay: c.WriteMessage(websocket.TextMessage, msg.data); its error is
\* dropped.  closed records whether conn.Close() had run on c before
RelayWrite ==
    /\ RelayAlive /\ rly.pc = "write"
    /\ wrote' = [wrote EXCEPT
                    ![rly.cur] = Append(@,
                        [data |-> rly.msg.data, sender |-> rly.msg.sender,
                         closed |-> handlers[rly.cur].pc = "closed"])]
    /\ rly' = [rly EXCEPT !.pc = "range", !.cur = "none"]
    /\ UNCHANGED <<handlers, clients, broadcast, rread, procVars,
                   codecVars, connVars>>

\* relay: the range ends.  Every key that was in the map when the range
\* began and is still in it has been yielded; a key stored while the range
\* ran may have been skipped
RelayRangeEnd ==
    /\ RelayAlive /\ rly.pc = "range"
    /\ (rly.start \cap clients) \subseteq rly.visited
    /\ rly' = RelayWaiting
    /\ UNCHANGED <<handlers, clients, broadcast, wrote, rread, procVars,
                   codecVars, connVars>>

\* the handleWS goroutines that are inside a store into or a removal from
\* the clients map
MapWriters == { c \in RelayPeers : handlers[c].pc \in {"adding", "deleting"} }

\* the relay goroutine is inside its range over the clients map
MapIterating == rly.pc \in {"range", "write"}

\* two goroutines are inside the clients map at once, one of them writing
MapRace ==
    \/ MapIterating /\ MapWriters # {}
    \/ \E c, d \in MapWriters : c # d

\* the runtime notices the concurrent use of the map ("concurrent map
\* iteration and map write", "concurrent map writes") and ends the process
MapFault ==
    /\ RelayAlive /\ MapRace
    /\ rly' = [rly EXCEPT !.pc = "fatal"]
    /\ UNCHANGED <<handlers, clients, broadcast, wrote, rread, procVars,
                   codecVars, connVars>>

RelayNext ==
    \/ \E c \in RelayPeers : WsUpgrade(c)
    \/ \E c \in RelayPeers : WsInsertEnd(c)
    \/ \E c \in RelayPeers : WsReadMessage(c)
    \/ \E c \in RelayPeers : WsReadError(c)
    \/ \E c \in RelayPeers : WsDeleteEnd(c)
    \/ \E c \in RelayPeers : WsClose(c)
    \/ \E c \in RelayPeers : RelayReceive(c)
    \/ RelayRangeNext
    \/ RelayWrite
    \/ RelayRangeEnd
    \/ MapFault

SpecRelay == RelayInit /\ [][RelayNext]_vars

-----------------------------------------------------------------------------
(* The signaling relay, under SpecRelay *)

\* the step in which relay calls WriteMessage
RelayWriteStep == role = "relay" /\ wrote' # wrote

\* the step in which relay's range over clients ends
RelayRoundEnd == role = "relay" /\ rly.pc = "range" /\ rly'.pc = "recv"

\* the last WriteMessage on c carried message m
LastWrote(c, m) ==
    /\ Len(wrote[c]) > 0
    /\ wrote[c][Len(wrote[c])].data = m.data
    /\ wrote[c][Len(wrote[c])].sender = m.sender

\* the message the relay took from the channel has been written to every
\* client that was in the map when the round began and still is, the
\* sender excepted
RelayDelivered ==
    \A c \in (rly.start \cap clients) \ {rly.msg.sender} :
       LastWrote(c, rly.msg)

\* C24: every message the relay takes from a connected client is written
\* to every other client that is connected at relay time, never to its
\* sender, and with the bytes ReadMessage returned, unmodified: each
\* WriteMessage goes to a client other than the sender with the sender's
\* bytes; when a round of the relay ends, every client that was in the map
\* when the round began and still is, the sender excepted, has been sent
\* the message; and the process does not end with a message taken and
\* such a client not sent it.
C24_RelayForwardsToOthers ==
    /\ [][ /\ RelayWriteStep =>
                 \E c \in RelayPeers \ {rly.msg.sender} :
                    /\ rread[rly.msg.sender] > 0
                    /\ wrote' = [wrote EXCEPT
                                    ![c] = Append(@,
                                        [data |-> RelayPayload[rly.msg.sender],
                                         sender |-> rly.msg.sender,
                                         closed |-> handlers[c].pc = "closed"])]
           /\ RelayRoundEnd => RelayDelivered ]_vars
    /\ []((role = "relay" /\ rly.pc = "fatal") => RelayDelivered)

\* C29: the clients map is never inside a store or a removal of a handleWS
\* goroutine while the relay goroutine ranges over it, and never inside
\* the stores or removals of two handleWS goroutines at once.
C29_ClientsMapRaceFree == role = "relay" => ~MapRace

\* C30: relay never calls WriteMessage on a connection that handleWS has
\* removed from clients and closed.
C30_NoWriteAfterClose ==
    role = "relay" =>
        \A c \in RelayPeers :
           \A i \in 1..Len(wrote[c]) : ~wrote[c][i].closed

(***************************************************************************)
(* The multi-peer signaling server (the Go server of the signaling guide): *)
(* clients maps peer IDs to connections under clientsMu, broadcast is a    *)
(* buffered channel, handleWS runs once per peer and relay once            *)
(***************************************************************************)

\* the peer IDs of a run
SignalPeers == {"A", "B"}

\* messages the peers send after their join, all peers together
MaxSignalMsgs == 1

\* the capacity of the broadcast channel
BroadcastCap == 256

\* a SignalMessage, with the sender the server attaches to it
SignalMessage(type, peerId, peers, to, sender) ==
    [type |-> type, peerId |-> peerId, peers |-> peers, to |-> to,
     sender |-> sender]

\* the text of a message that json.Unmarshal refuses (not JSON, or JSON of
\* another shape), with the sender the server attaches to it
NotJson(sender) == SignalMessage("not-json", "", {}, "", sender)

\* the to field of the messages of the peers: a peer, nobody, or an ID no
\* peer has joined with
SignalTo == SignalPeers \cup {"", "Z"}

\* the relay goroutine at "for msg := range broadcast"
SignalWaiting == [pc |-> "recv", msg |-> NotJson("")]

SignalInit ==
    /\ CodecIdle
    /\ ProcIdle
    /\ role = "signal"
    /\ httpIn = NoHttp /\ inbuf = <<>> /\ inEOF = FALSE /\ wbroken = FALSE
    /\ nsent = 0 /\ outw = <<>>
    /\ spc = "off" /\ cmain = "off" /\ crd = "off"
    /\ hkey = <<>> /\ hmsg = NoHttp /\ nin = 0
    /\ last = Step("none", NoFrame, 0)
    /\ handlers = [p \in SignalPeers |-> [pc |-> "idle", peers |-> {}]]
    /\ clients = {}
    /\ broadcast = <<>>
    /\ rly = SignalWaiting
    /\ wrote = [p \in SignalPeers |-> <<>>]
    /\ rread = [p \in SignalPeers |-> 0]

\* handleWS: Upgrade and the first ReadMessage.  A read error or a message
\* that is not a join closes the connection; a join gives the peer ID
SigJoin(p) ==
    /\ role = "signal" /\ handlers[p].pc = "idle"
    /\ \E ok \in BOOLEAN :
          handlers' = [handlers EXCEPT
                          ![p].pc = IF ok THEN "list" ELSE "closed"]
    /\ UNCHANGED <<clients, broadcast, rly, wrote, rread, procVars,
                   codecVars, connVars>>

\* handleWS: existingPeers, the keys of clients read under clientsMu.RLock
SigExistingPeers(p) ==
    /\ role = "signal" /\ handlers[p].pc = "list"
    /\ handlers' = [handlers EXCEPT
                       ![p] = [pc |-> "sendlist", peers |-> clients]]
    /\ UNCHANGED <<clients, broadcast, rly, wrote, rread, procVars,
                   codecVars, connVars>>

\* handleWS: conn.WriteMessage of the peer-list
SigPeerList(p) ==
    /\ role = "signal" /\ handlers[p].pc = "sendlist"
    /\ wrote' = [wrote EXCEPT
                    ![p] = Append(@, SignalMessage("peer-list", "",
                                         handlers[p].peers, "", ""))]
    /\ handlers' = [handlers EXCEPT ![p].pc = "add"]
    /\ UNCHANGED <<clients, broadcast, rly, rread, procVars, codecVars,
                   connVars>>

\* handleWS: clients[peerID] = conn under clientsMu.Lock
SigAdd(p) ==
    /\ role = "signal" /\ handlers[p].pc = "add"
    /\ clients' = clients \cup {p}
    /\ handlers' = [handlers EXCEPT ![p].pc = "notify"]
    /\ UNCHANGED <<broadcast, rly, wrote, rread, procVars, codecVars,
                   connVars>>

\* handleWS: broadcast <- peer-joined, which blocks while the channel is
\* full
SigPeerJoined(p) ==
    /\ role = "signal" /\ handlers[p].pc = "notify"
    /\ Len(broadcast) < BroadcastCap
    /\ broadcast' = Append(broadcast,
                        SignalMessage("peer-joined", p, {}, "", p))
    /\ handlers' = [handlers EXCEPT ![p].pc = "read"]
    /\ UNCHANGED <<clients, rly, wrote, rread, procVars, codecVars,
                   connVars>>

\* handleWS, read loop: ReadMessage returns a message of the peer, an
\* offer to one peer or to nobody in particular or a text that is not a
\* SignalMessage, and broadcast <- it
SigReadMessage(p) ==
    /\ role = "signal" /\ handlers[p].pc = "read"
    /\ SumOver(rread, SignalPeers) < MaxSignalMsgs
    /\ Len(broadcast) < BroadcastCap
    /\ \E m \in { SignalMessage("offer", "", {}, to, p) : to \in SignalTo }
                    \cup {NotJson(p)} :
          broadcast' = Append(broadcast, m)
    /\ rread' = [rread EXCEPT ![p] = @ + 1]
    /\ UNCHANGED <<handlers, clients, rly, wrote, procVars, codecVars,
                   connVars>>

\* handleWS, read loop and cleanup: ReadMessage returns an error;
\* delete(clients, peerID) under clientsMu.Lock, conn.Close()
SigDisconnect(p) ==
    /\ role = "signal" /\ handlers[p].pc = "read"
    /\ clients' = clients \ {p}
    /\ handlers' = [handlers EXCEPT ![p].pc = "leave"]
    /\ UNCHANGED <<broadcast, rly, wrote, rread, procVars, codecVars,
                   connVars>>

\* handleWS: broadcast <- peer-left, and return
SigPeerLeft(p) ==
    /\ role = "signal" /\ handlers[p].pc = "leave"
    /\ Len(broadcast) < BroadcastCap
    /\ broadcast' = Append(broadcast,
                        SignalMessage("peer-left", p, {}, "", p))
    /\ handlers' = [handlers EXCEPT ![p].pc = "closed"]
    /\ UNCHANGED <<clients, rly, wrote, rread, procVars, codecVars,
                   connVars>>

\* relay: the connections a message is written to, under clientsMu.RLock:
\* the target if it has one and the target is in clients, else every
\* client but the sender
SignalTargets(msg) ==
    IF msg.to # "" THEN {msg.to} \cap clients
    ELSE clients \ {msg.sender}

\* relay, line 133: the next message of the channel
SigReceive ==
    /\ role = "signal" /\ rly.pc = "recv" /\ broadcast # <<>>
    /\ rly' = [pc |-> "relay", msg |-> Head(broadcast)]
    /\ broadcast' = Tail(broadcast)
    /\ UNCHANGED <<handlers, clients, wrote, rread, procVars, codecVars,
                   connVars>>

\* relay, lines 134-153: a message json.Unmarshal refuses is dropped; else
\* clientsMu.RLock is held from the first look at clients to the last
\* WriteMessage, so no store or delete falls in between
SigRelay ==
    /\ role = "signal" /\ rly.pc = "relay"
    /\ wrote' = [p \in SignalPeers |->
                    IF rly.msg.type # "not-json"
                       /\ p \in SignalTargets(rly.msg)
                    THEN Append(wrote[p], rly.msg) ELSE wrote[p]]
    /\ rly' = SignalWaiting
    /\ UNCHANGED <<handlers, clients, broadcast, rread, procVars,
                   codecVars, connVars>>

SignalNext ==
    \/ \E p \in SignalPeers : SigJoin(p)
    \/ \E p \in SignalPeers : SigExistingPeers(p)
    \/ \E p \in SignalPeers : SigPeerList(p)
    \/ \E p \in SignalPeers : SigAdd(p)
    \/ \E p \in SignalPeers : SigPeerJoined(p)
    \/ \E p \in SignalPeers : SigReadMessage(p)
    \/ \E p \in SignalPeers : SigDisconnect(p)
    \/ \E p \in SignalPeers : SigPeerLeft(p)
    \/ SigReceive
    \/ SigRelay

SpecSignal == SignalInit /\ [][SignalNext]_vars

\* peer p has been told the ID of peer q, in a peer-list or a peer-joined
ToldOf(p, q) ==
    \E i \in 1..Len(wrote[p]) :
       \/ wrote[p][i].type = "peer-list" /\ q \in wrote[p][i].peers
       \/ wrote[p][i].type = "peer-joined" /\ wrote[p][i].peerId = q

\* peer p has completed its join and is connected
Joined(p) == handlers[p].pc = "read"

\* C28: when two peers have both completed their join and are connected,
\* and the relay has handled every message put on the channel, each of the
\* two has been told the other's ID.
C28_JoinedPeersLearnEachOther ==
    (role = "signal" /\ broadcast = <<>> /\ rly.pc = "recv") =>
        \A p, q \in SignalPeers :
           (p # q /\ Joined(p) /\ Joined(q)) => ToldOf(p, q)

====
